---- MODULE Spec2Model ----
(***************************************************************************)
(* ChromaFM backend: the album colour-bucket ranking and backfill engine.  *)
(*                                                                         *)
(* The module holds one state machine per component of the backend:        *)
(*   SpecSelector  pickTopForColor / pickPreferBestOrVariety               *)
(*   SpecMapLimit  mapLimit, the bounded worker pool                       *)
(*   SpecFetch     spotifyFetchJson, lookup cache + single flight          *)
(*   SpecCompute   computeResultsForRange's compute cache + single flight  *)
(*   SpecPipeline  the body of computeResultsForRange, stage by stage      *)
(*                                                                         *)
(* Numbers: scores and confidences are JavaScript doubles in the source;   *)
(* the model keeps them as integers in hundredths (score 3.0 is 300,       *)
(* confidence 0.22 is 22).  The 32-bit hash is kept in two 16-bit limbs.   *)
(***************************************************************************)
EXTENDS Integers, Sequences, FiniteSets, TLC

VARIABLES
  \* ---- Selector (pickTopForColor) ----
  selPc,        \* "ready" | "picked"
  selList,      \* the bucket's sorted candidate list
  selRange,     \* requestedRange
  selColor,     \* bucket label
  selPick,      \* value returned by pickTopForColor
  \* ---- mapLimit ----
  mlState,      \* promise of mapLimit: "idle" | "pending" | "resolved" | "rejected"
  mlItems,      \* items
  mlLimit,      \* limit
  mlI,          \* the shared index i
  mlOut,        \* out: index -> value written, or empty
  mlWorkers,    \* the async workers: position in the loop, idx held, value awaited
  mlCalls,      \* index -> number of fn invocations started for it
  \* ---- spotifyFetchJson ----
  ftNow,        \* Date.now(), in ms
  ftCache,      \* SPOTIFY_CACHE: key -> { v, t }, or absent
  ftInflight,   \* SPOTIFY_INFLIGHT: key -> promise, or absent (0)
  ftPromises,   \* the promises p created so far, with the position of their body
  ftCallers,    \* the callers of spotifyFetchJson: what each awaits, what it got
  \* ---- computeResultsForRange: compute cache and single flight ----
  coNow,        \* Date.now(), in ms
  coCache,      \* COMPUTE_CACHE: cKey -> { v, t }, or absent
  coInflight,   \* COMPUTE_INFLIGHT: cKey -> promise, or absent (0)
  coRuns,       \* the promises p = (async () => { pipeline })() and their position
  coCallers,    \* the callers of computeResultsForRange
  \* ---- computeResultsForRange: one run of the pipeline ----
  plPc,         \* the stage the run is in
  plRange,      \* requestedRange
  plPlace,      \* where each album of the listener's data is found
  plTodo,       \* the colours left of the `for (color of missing())` under way
  plResult,     \* result: colour -> { top, others }
  plBackfilledBy, \* backfilledBy: colour -> stage label, "none" when unset
  plFailures,   \* lookups and samplings that have failed so far
  plOutcome,    \* the run's promise: "pending" | "resolved" | "rejected"
  plPool,       \* widePool of the wide stage, with what is enriched so far
  plIdx,        \* idx of the wide stage's while loop
  plEnforced,   \* the calls of enforceUniqueTops the run has made
  \* ---- hexToSimpleBucket ----
  clPc,         \* "ready" | "once" | "twice": calls made for clHex
  clHex,        \* the colour handed to hexToSimpleBucket
  clLow,        \* how the doubles s and h of clHex are rounded at a threshold
  clFirst,      \* what the first call returned
  clBucket,     \* what the latest call returned
  \* ---- getDominantFromImage ----
  dmImage,      \* what the image reference of the album leads to
  dmCache,      \* DOMINANT_CACHE: the entry of the image, <<>> when absent
  dmCallers,    \* the callers: where each is, what it awaits, what it made
  \* ---- the sources of candidates on one list of albums ----
  cdItems,      \* the upstream list: albums of the top tracks / of a page
  cdPc,         \* "ready" | "done"
  cdCall,       \* the call made and its options
  cdOut,        \* what it returned: the candidates, or <<best>>
  \* ---- enforceUniqueTops ----
  unPc,         \* "ready" | "done"
  unResult,     \* the result enforceUniqueTops is called on
  unOut,        \* the result as the call leaves it
  \* ---- the two TTL caches under one clock ----
  ttNow,        \* Date.now()
  ttSpotify,    \* SPOTIFY_CACHE
  ttCompute,    \* COMPUTE_CACHE
  ttRead,       \* the latest read: the entry found, the value returned
  \* ---- rankWeight ----
  rwTotal,      \* total, the size of the window
  rwOut,        \* index -> <<the weight computed for it>>, <<>> before
  \* ---- the capacity of a cache ----
  capWhich,     \* the cache: "lookup" | "computed" | "color"
  capMap,       \* the Map: its entries in insertion order
  capSince,     \* key -> the number of the set call that inserted it, 0 if absent
  capSets,      \* the number of set calls made
  capKey,       \* the key of the latest set call
  \* ---- /api/results_bundle: three runs and their shared lookups ----
  bdPc,         \* the handler: "idle" | "started"
  bdUp,         \* window -> the page of top tracks the upstream answers
  bdCache,      \* SPOTIFY_CACHE: key -> page, "none" if absent
  bdInflight,   \* SPOTIFY_INFLIGHT: key -> the window being fetched, or "none"
  bdComputing,  \* COMPUTE_INFLIGHT: cKey -> the window of the run, or "none"
  bdServes,     \* window -> the run whose promise its call received
  bdRuns,       \* window -> the run started for it: position, pages received
  \* ---- requests of different access tokens ----
  tkEntries,    \* the entries of the caches and in-flight maps: map, key, token
  tkServed,     \* the latest entry returned: map, the request's token, the entry's
  \* ---- findArtistBackfillForColor: the samplings of the worker pool ----
  abItems,      \* the albums of the top artists, in the order of the pages
  abCall,       \* the options of the call: targetColor, minConf, usedIds
  abPc,         \* "ready" | "sampling" | "done"
  abI,          \* the `i` of mapLimit: the next index to hand out
  abWorkers,    \* worker -> the index whose sampling it awaits, or AbEnded
  abBest,       \* the `best` the callbacks share
  \* ---- getDominantFromImage and DOMINANT_CACHE over several URLs ----
  imCache,      \* DOMINANT_CACHE: the entries [k, v] in insertion order
  imCallers,    \* caller -> position, URL, how the value came, the value
  \* ---- /api/results_bundle: the debounce of one listener's requests ----
  bnNow,        \* Date.now()
  bnEntry,      \* BUNDLE_INFLIGHT.get(tKey): <<>> or <<[p, t]>>
  bnPromises,   \* bundle promise -> "none" | "pending" | "resolved" | "rejected"
  bnTimers,     \* the timers set by the finally: promise and due time
  bnServed      \* the promise the latest request awaits, and its state then

selVars == <<selPc, selList, selRange, selColor, selPick>>
mlVars == <<mlState, mlItems, mlLimit, mlI, mlOut, mlWorkers, mlCalls>>
ftVars == <<ftNow, ftCache, ftInflight, ftPromises, ftCallers>>
coVars == <<coNow, coCache, coInflight, coRuns, coCallers>>
plVars == <<plPc, plRange, plPlace, plTodo, plResult, plBackfilledBy, plFailures,
            plOutcome, plPool, plIdx, plEnforced>>
clVars == <<clPc, clHex, clLow, clFirst, clBucket>>
dmVars == <<dmImage, dmCache, dmCallers>>
cdVars == <<cdItems, cdPc, cdCall, cdOut>>
unVars == <<unPc, unResult, unOut>>
ttVars == <<ttNow, ttSpotify, ttCompute, ttRead>>
rwVars == <<rwTotal, rwOut>>
capVars == <<capWhich, capMap, capSince, capSets, capKey>>
bdVars == <<bdPc, bdUp, bdCache, bdInflight, bdComputing, bdServes, bdRuns>>
tkVars == <<tkEntries, tkServed>>
abVars == <<abItems, abCall, abPc, abI, abWorkers, abBest>>
imVars == <<imCache, imCallers>>
bnVars == <<bnNow, bnEntry, bnPromises, bnTimers, bnServed>>

vars == <<selVars, mlVars, ftVars, coVars, plVars, clVars, dmVars, cdVars,
          unVars, ttVars, rwVars, capVars, bdVars, tkVars, abVars, imVars,
          bnVars>>

\* what a step of one component leaves alone: the other components
SelOnly == UNCHANGED <<mlVars, ftVars, coVars, plVars, clVars, dmVars,
    cdVars, unVars, ttVars, rwVars, capVars, bdVars, tkVars, abVars, imVars,
    bnVars>>
MlOnly == UNCHANGED <<selVars, ftVars, coVars, plVars, clVars, dmVars,
    cdVars, unVars, ttVars, rwVars, capVars, bdVars, tkVars, abVars, imVars,
    bnVars>>
FtOnly == UNCHANGED <<selVars, mlVars, coVars, plVars, clVars, dmVars,
    cdVars, unVars, ttVars, rwVars, capVars, bdVars, tkVars, abVars, imVars,
    bnVars>>
CoOnly == UNCHANGED <<selVars, mlVars, ftVars, plVars, clVars, dmVars,
    cdVars, unVars, ttVars, rwVars, capVars, bdVars, tkVars, abVars, imVars,
    bnVars>>
PlOnly == UNCHANGED <<selVars, mlVars, ftVars, coVars, clVars, dmVars,
    cdVars, unVars, ttVars, rwVars, capVars, bdVars, tkVars, abVars, imVars,
    bnVars>>
ClOnly == UNCHANGED <<selVars, mlVars, ftVars, coVars, plVars, dmVars,
    cdVars, unVars, ttVars, rwVars, capVars, bdVars, tkVars, abVars, imVars,
    bnVars>>
DmOnly == UNCHANGED <<selVars, mlVars, ftVars, coVars, plVars, clVars,
    cdVars, unVars, ttVars, rwVars, capVars, bdVars, tkVars, abVars, imVars,
    bnVars>>
CdOnly == UNCHANGED <<selVars, mlVars, ftVars, coVars, plVars, clVars,
    dmVars, unVars, ttVars, rwVars, capVars, bdVars, tkVars, abVars, imVars,
    bnVars>>
UnOnly == UNCHANGED <<selVars, mlVars, ftVars, coVars, plVars, clVars,
    dmVars, cdVars, ttVars, rwVars, capVars, bdVars, tkVars, abVars, imVars,
    bnVars>>
TtOnly == UNCHANGED <<selVars, mlVars, ftVars, coVars, plVars, clVars,
    dmVars, cdVars, unVars, rwVars, capVars, bdVars, tkVars, abVars, imVars,
    bnVars>>
RwOnly == UNCHANGED <<selVars, mlVars, ftVars, coVars, plVars, clVars,
    dmVars, cdVars, unVars, ttVars, capVars, bdVars, tkVars, abVars, imVars,
    bnVars>>
CapOnly == UNCHANGED <<selVars, mlVars, ftVars, coVars, plVars, clVars,
    dmVars, cdVars, unVars, ttVars, rwVars, bdVars, tkVars, abVars, imVars,
    bnVars>>
BdOnly == UNCHANGED <<selVars, mlVars, ftVars, coVars, plVars, clVars,
    dmVars, cdVars, unVars, ttVars, rwVars, capVars, tkVars, abVars, imVars,
    bnVars>>
TkOnly == UNCHANGED <<selVars, mlVars, ftVars, coVars, plVars, clVars,
    dmVars, cdVars, unVars, ttVars, rwVars, capVars, bdVars, abVars, imVars,
    bnVars>>
AbOnly == UNCHANGED <<selVars, mlVars, ftVars, coVars, plVars, clVars,
    dmVars, cdVars, unVars, ttVars, rwVars, capVars, bdVars, tkVars, imVars,
    bnVars>>
ImOnly == UNCHANGED <<selVars, mlVars, ftVars, coVars, plVars, clVars,
    dmVars, cdVars, unVars, ttVars, rwVars, capVars, bdVars, tkVars, abVars,
    bnVars>>
BnOnly == UNCHANGED <<selVars, mlVars, ftVars, coVars, plVars, clVars,
    dmVars, cdVars, unVars, ttVars, rwVars, capVars, bdVars, tkVars, abVars,
    imVars>>

\* JavaScript null
null == [isNull |-> TRUE]

----------------------------------------------------------------------------
\* Fixed tables of the program

COLOR_ORDER ==
  <<"red", "orange", "yellow", "green", "blue",
    "purple", "pink", "white", "grey", "black">>

Colors == {COLOR_ORDER[i] : i \in 1..Len(COLOR_ORDER)}

AllRanges == <<"short_term", "medium_term", "long_term">>

Ranges == {AllRanges[i] : i \in 1..Len(AllRanges)}

\* strictnessForRange: confidences and the dominance margin in hundredths
strictnessForRange(timeRange) ==
  IF timeRange = "long_term" THEN
    [minConf |-> 18, minConfWide |-> 10, savedScan |-> 900, savedScanWide |-> 1600,
     topArtistsN |-> 14, albumsPerArtist |-> 22, candidateCap |-> 240,
     topTrackPagesWide |-> 4, firstEnrich |-> 520, enrichBatch |-> 240,
     maxTotalEnrich |-> 1600, pickWindow |-> 6, dominanceMargin |-> 32]
  ELSE IF timeRange = "medium_term" THEN
    [minConf |-> 22, minConfWide |-> 12, savedScan |-> 650, savedScanWide |-> 1200,
     topArtistsN |-> 12, albumsPerArtist |-> 18, candidateCap |-> 200,
     topTrackPagesWide |-> 3, firstEnrich |-> 520, enrichBatch |-> 220,
     maxTotalEnrich |-> 1400, pickWindow |-> 4, dominanceMargin |-> 42]
  ELSE
    [minConf |-> 26, minConfWide |-> 14, savedScan |-> 450, savedScanWide |-> 900,
     topArtistsN |-> 10, albumsPerArtist |-> 16, candidateCap |-> 180,
     topTrackPagesWide |-> 3, firstEnrich |-> 520, enrichBatch |-> 200,
     maxTotalEnrich |-> 1200, pickWindow |-> 2, dominanceMargin |-> 55]

----------------------------------------------------------------------------
\* hashStringToInt: 32-bit FNV-1a over the UTF-16 code units of the key.
\* h is kept as <<hi, lo>>, two 16-bit limbs, so that every intermediate
\* product stays inside the integers the checker computes with.

Limb == 65536

RECURSIVE XorBits(_, _, _)
XorBits(a, b, n) ==
  IF n = 0 THEN 0
  ELSE ((a + b) % 2) + 2 * XorBits(a \div 2, b \div 2, n - 1)

\* h ^= c, for a code unit c < 2^16
HashXor(h, c) == <<h[1], XorBits(h[2], c, 16)>>

\* h = Math.imul(h, 16777619), 16777619 = 2^24 + 403
HashMul(h) ==
  LET lo403 == h[2] * 403
      hi403 == h[1] * 403
  IN  <<(hi403 + (lo403 \div Limb) + (h[2] % 256) * 256) % Limb, lo403 % Limb>>

\* 2166136261 = 33052 * 65536 + 40389
HashBasis == <<33052, 40389>>

RECURSIVE HashFrom(_, _, _)
HashFrom(h, s, i) ==
  IF i > Len(s) THEN h
  ELSE LET next == HashMul(HashXor(h, s[i]))
       IN  IF next[1] >= 0 THEN HashFrom(next, s, i + 1) ELSE next

hashStringToInt(s) == HashFrom(HashBasis, s, 1)

\* (h >>> 0) % m, for 1 <= m < 2^15
HashMod(h, m) == (((h[1] % m) * (Limb % m)) + h[2]) % m

\* char codes of the strings the keys are built from
CharCodes(str) ==
  CASE str = "short_term"  -> <<115, 104, 111, 114, 116, 95, 116, 101, 114, 109>>
    [] str = "medium_term" -> <<109, 101, 100, 105, 117, 109, 95, 116, 101, 114, 109>>
    [] str = "long_term"   -> <<108, 111, 110, 103, 95, 116, 101, 114, 109>>
    [] str = "red"         -> <<114, 101, 100>>
    [] str = "orange"      -> <<111, 114, 97, 110, 103, 101>>
    [] str = "yellow"      -> <<121, 101, 108, 108, 111, 119>>
    [] str = "green"       -> <<103, 114, 101, 101, 110>>
    [] str = "blue"        -> <<98, 108, 117, 101>>
    [] str = "purple"      -> <<112, 117, 114, 112, 108, 101>>
    [] str = "pink"        -> <<112, 105, 110, 107>>
    [] str = "white"       -> <<119, 104, 105, 116, 101>>
    [] str = "grey"        -> <<103, 114, 101, 121>>
    [] str = "black"       -> <<98, 108, 97, 99, 107>>
    [] str = ":"           -> <<58>>
    [] str = ":primary"    -> <<58, 112, 114, 105, 109, 97, 114, 121>>

\* `${requestedRange}:${color}:primary`
PrimaryKey(requestedRange, color) ==
  CharCodes(requestedRange) \o CharCodes(":") \o CharCodes(color) \o CharCodes(":primary")

----------------------------------------------------------------------------
\* Selector

Min(a, b) == IF a < b THEN a ELSE b
Max(a, b) == IF a > b THEN a ELSE b
Abs(a) == IF a < 0 THEN -a ELSE a

\* cmpAlbumStrength(a, b) < 0 when a is the stronger album
cmpAlbumStrength(a, b) ==
  IF b.score # a.score THEN b.score - a.score
  ELSE IF b.confidence # a.confidence THEN b.confidence - a.confidence
  ELSE b.count - a.count

getAppearances(a) == a.appearances

\* the variety pick of pickPreferBestOrVariety: an index of list, 1-based
VarietyIndex(list, n, key) ==
  HashMod(hashStringToInt(key), Max(1, Min(n, Len(list)))) + 1

\* the dominance test with the margin left out
DominatesByNoMargin(bestS, upS, dominanceMargin) ==
  bestS >= upS

\* bestS >= upS * (1 + dominanceMargin), margin in hundredths
DominatesBy(bestS, upS, dominanceMargin) ==
  bestS * 100 >= upS * (100 + dominanceMargin)

pickPreferBestOrVariety(list, n, key, dominanceMargin) ==
  IF Len(list) = 0 THEN null
  ELSE IF Len(list) = 1 THEN list[1]
  ELSE IF list[2].score <= 0 \/ DominatesBy(list[1].score, list[2].score, dominanceMargin)
       THEN list[1]
  ELSE list[VarietyIndex(list, n, key)]

\* the appearance rule always keeping the leader
AppearanceGapPickLeader(a0, a1) == a0

AppearanceGapPick(a0, a1) ==
  IF getAppearances(a0) >= getAppearances(a1) THEN a0 ELSE a1

pickTopForColor(list, color, n, key, dominanceMargin) ==
  IF Len(list) = 0 THEN null
  ELSE IF Len(list) = 1 THEN list[1]
  ELSE IF Abs(getAppearances(list[1]) - getAppearances(list[2])) >= 2
       THEN AppearanceGapPick(list[1], list[2])
  ELSE pickPreferBestOrVariety(list, n, key, dominanceMargin)

\* the call of computeResultsForRange
PickTopOfBucket(list, requestedRange, color) ==
  pickTopForColor(list, color, strictnessForRange(requestedRange).pickWindow,
                  PrimaryKey(requestedRange, color),
                  strictnessForRange(requestedRange).dominanceMargin)

\* buckets[c].sort(cmpAlbumStrength) leaves the list in this order
IsSortedByStrength(list) ==
  \A i \in 1..Len(list) : \A j \in 1..Len(list) :
    i < j => cmpAlbumStrength(list[i], list[j]) <= 0

----------------------------------------------------------------------------
\* SpecSelector: one bucket list, one window, one pick

MaxList == 3

SelScores == {0, 100, 290, 300}
SelAppearances == {1, 2, 5}

\* the i-th candidate of a list: ids are distinct, count = appearances as in
\* gatherTopTrackCandidates, one confidence for all
SelCandidate(i, sc, ap) ==
  [id |-> i, score |-> sc, confidence |-> 50, appearances |-> ap, count |-> ap]

SelLists ==
  UNION { { [i \in 1..len |-> SelCandidate(i, f[i][1], f[i][2])] :
              f \in [1..len -> SelScores \X SelAppearances] } : len \in 0..MaxList }

SelInit ==
  /\ selPc = "ready"
  /\ selList \in {l \in SelLists : IsSortedByStrength(l)}
  /\ selRange \in Ranges
  /\ selColor \in Colors
  /\ selPick = null

SelOff ==
  /\ selPc = "off"
  /\ selList = <<>>
  /\ selRange = "short_term"
  /\ selColor = "red"
  /\ selPick = null

SelPick ==
  /\ selPc = "ready"
  /\ selPick' = PickTopOfBucket(selList, selRange, selColor)
  /\ selPc' = "picked"
  /\ UNCHANGED <<selList, selRange, selColor>>
  /\ SelOnly

SelNext == SelPick

----------------------------------------------------------------------------
\* mapLimit(items, limit, fn): a pool of min(limit, items.length) async workers
\* over one shared index.  Indices are those of the source, 0 .. n-1.

MaxItems == 3
MaxLimit == 3

ItemValues == {"a", "b"}

\* an array slot never written
empty == [isEmpty |-> TRUE]

\* what fn resolves with for an item
FnValue(item, idx) == [fnOf |-> item, at |-> idx]

\* a pool as wide as the item list, whatever the limit
WorkerCountNoLimit(limit, n) == n

\* Array.from({ length: Math.min(limit, items.length) }, ...)
WorkerCount(limit, n) == Min(limit, n)

\* a result stored in completion order: the first slot still empty
WriteOutInCompletionOrder(out, idx, v) ==
  LET free == {k \in DOMAIN out : out[k] = empty}
  IN  IF free = {} THEN out
      ELSE [out EXCEPT ![CHOOSE k \in free : \A m \in free : k <= m] = v]

\* out[idx] = await fn(items[idx], idx)
WriteOut(out, idx, v) == [out EXCEPT ![idx] = v]

MlN == Len(mlItems)

MlInFlight == {w \in DOMAIN mlWorkers : mlWorkers[w].pc = "await"}

MlRunning == {w \in DOMAIN mlWorkers : mlWorkers[w].pc \in {"await", "settled", "threw"}}

MlInit ==
  /\ mlState = "idle"
  /\ mlItems \in UNION {[1..n -> ItemValues] : n \in 0..MaxItems}
  /\ mlLimit \in 1..MaxLimit
  /\ mlI = 0
  /\ mlOut = <<>>
  /\ mlWorkers = <<>>
  /\ mlCalls = <<>>

MlOff ==
  /\ mlState = "off"
  /\ mlItems = <<>>
  /\ mlLimit = 0
  /\ mlI = 0
  /\ mlOut = <<>>
  /\ mlWorkers = <<>>
  /\ mlCalls = <<>>

\* The call itself: out and i are set up and every worker runs synchronously
\* to its first await, so worker w takes idx = w - 1 and starts fn on it.
\* Promise.all of no workers resolves at once.
MlCall ==
  /\ mlState = "idle"
  /\ LET W == WorkerCount(mlLimit, MlN)
     IN  /\ mlWorkers' = [w \in 1..W |-> [pc |-> "await", idx |-> w - 1, val |-> empty]]
         /\ mlI' = W
         /\ mlCalls' = [k \in 0..(MlN - 1) |-> IF k < W THEN 1 ELSE 0]
         /\ mlState' = IF W = 0 THEN "resolved" ELSE "pending"
  /\ mlOut' = [k \in 0..(MlN - 1) |-> empty]
  /\ UNCHANGED <<mlItems, mlLimit>>
  /\ MlOnly

\* the fn invocation a worker awaits resolves
MlFnResolve(w) ==
  /\ mlWorkers[w].pc = "await"
  /\ mlWorkers' = [mlWorkers EXCEPT ![w].pc = "settled",
                      ![w].val = FnValue(mlItems[mlWorkers[w].idx + 1], mlWorkers[w].idx)]
  /\ UNCHANGED <<mlState, mlItems, mlLimit, mlI, mlOut, mlCalls>>
  /\ MlOnly

\* the fn invocation a worker awaits rejects
MlFnReject(w) ==
  /\ mlWorkers[w].pc = "await"
  /\ mlWorkers' = [mlWorkers EXCEPT ![w].pc = "threw"]
  /\ UNCHANGED <<mlState, mlItems, mlLimit, mlI, mlOut, mlCalls>>
  /\ MlOnly

\* the promise of Promise.all(workers) given the workers' states
PromiseAll(state, workers) ==
  IF state # "pending" THEN state
  ELSE IF \E w \in DOMAIN workers : workers[w].pc = "failed" THEN "rejected"
  ELSE IF \A w \in DOMAIN workers : workers[w].pc = "done" THEN "resolved"
  ELSE "pending"

\* The worker resumes after its await: it stores the value at out[idx], takes
\* idx = i++ and either leaves the loop or starts fn on the new index.
MlWorkerResume(w) ==
  /\ mlWorkers[w].pc = "settled"
  /\ mlOut' = WriteOut(mlOut, mlWorkers[w].idx, mlWorkers[w].val)
  /\ mlI' = mlI + 1
  /\ IF mlI >= MlN
       THEN /\ mlWorkers' = [mlWorkers EXCEPT ![w] = [pc |-> "done", idx |-> mlI, val |-> empty]]
            /\ mlCalls' = mlCalls
       ELSE /\ mlWorkers' = [mlWorkers EXCEPT ![w] = [pc |-> "await", idx |-> mlI, val |-> empty]]
            /\ mlCalls' = [mlCalls EXCEPT ![mlI] = @ + 1]
  /\ mlState' = PromiseAll(mlState, mlWorkers')
  /\ UNCHANGED <<mlItems, mlLimit>>
  /\ MlOnly

\* the worker's await throws: the worker's promise rejects, and with it
\* Promise.all; the other workers go on
MlWorkerThrow(w) ==
  /\ mlWorkers[w].pc = "threw"
  /\ mlWorkers' = [mlWorkers EXCEPT ![w].pc = "failed"]
  /\ mlState' = PromiseAll(mlState, mlWorkers')
  /\ UNCHANGED <<mlItems, mlLimit, mlI, mlOut, mlCalls>>
  /\ MlOnly

MlNext ==
  \/ MlCall
  \/ \E w \in DOMAIN mlWorkers : MlFnResolve(w)
  \/ \E w \in DOMAIN mlWorkers : MlFnReject(w)
  \/ \E w \in DOMAIN mlWorkers : MlWorkerResume(w)
  \/ \E w \in DOMAIN mlWorkers : MlWorkerThrow(w)

----------------------------------------------------------------------------
\* spotifyFetchJson(accessToken, url, cacheKey): TTL cache, single flight,
\* one retry on 429.  A key is the string k = tokenKey + ":" + cacheKey.

NFtKeys == 2
NFtCallers == 2
MaxFetches == 3
MaxTicks == 2

FtKeys == 1..NFtKeys
FtCallers == 1..NFtCallers

SPOTIFY_CACHE_TTL == 20000

\* the clock advances in steps of one TTL, so that an entry is seen at
\* an age below, equal to and above the TTL
TickMs == SPOTIFY_CACHE_TTL

\* a Map without the key
absent == [isAbsent |-> TRUE]

\* the body res.json() parsed, for the lookup of key k
Json(k) == [json |-> k]

\* what one upstream response can be: OK with a JSON body, OK with a body
\* that does not parse (json is null), rate limited, any other error
FtResponses == {"ok", "ok_nojson", "429", "error"}

\* spotifyCacheGet: the map after the read (an expired entry is deleted)
SpotifyCacheAfterGet(cache, key, now) ==
  IF cache[key] # absent /\ now - cache[key].t > SPOTIFY_CACHE_TTL
  THEN [cache EXCEPT ![key] = absent]
  ELSE cache

\* a read that returns the entry whatever its age
spotifyCacheGetStale(cache, key, now) ==
  IF cache[key] = absent THEN null ELSE cache[key].v

\* spotifyCacheGet: the value returned
spotifyCacheGet(cache, key, now) ==
  IF cache[key] = absent THEN null
  ELSE IF now - cache[key].t > SPOTIFY_CACHE_TTL THEN null
  ELSE cache[key].v

\* spotifyCacheSet (the capacity of 2500 entries is never reached here)
spotifyCacheSet(cache, key, value, now) ==
  [cache EXCEPT ![key] = [v |-> value, t |-> now]]

\* a caller that never finds the key registered
InflightHasNever(inflight, k) == FALSE

\* SPOTIFY_INFLIGHT.has(k)
InflightHas(inflight, k) == inflight[k] # 0

FtSettled(p) == ftPromises[p].pc \in {"resolved", "rejected"}

FtLive == {p \in DOMAIN ftPromises : ftPromises[p] # absent}

FtPending == {p \in FtLive : ~FtSettled(p)}

\* A promise record is kept while its body runs or a caller still awaits it;
\* after that nothing in the program can reach it and its slot is reused.
FtCollect(promises, callers) ==
  [p \in DOMAIN promises |->
     IF /\ promises[p] # absent
        /\ promises[p].pc \in {"resolved", "rejected"}
        /\ \A c \in DOMAIN callers : callers[c].p # p
     THEN absent ELSE promises[p]]

FtFreeSlots == {p \in DOMAIN ftPromises : ftPromises[p] = absent}

\* what a caller gets from a settled promise
FtOutcome(p) ==
  IF ftPromises[p].pc = "resolved" THEN [returned |-> ftPromises[p].value]
  ELSE [threw |-> ftPromises[p].status]

\* a caller between calls, and a caller whose call has just settled with
\* outcome got, for the lookup of key k
FtIdle == [pc |-> "idle", key |-> 0, p |-> 0, got |-> null]
FtGot(k, got) == [pc |-> "got", key |-> k, p |-> 0, got |-> got]

FtInit ==
  /\ ftNow = 0
  /\ ftCache = [k \in FtKeys |-> absent]
  /\ ftInflight = [k \in FtKeys |-> 0]
  /\ ftPromises = [p \in 1..MaxFetches |-> absent]
  /\ ftCallers = [c \in FtCallers |-> FtIdle]

FtOff ==
  /\ ftNow = 0
  /\ ftCache = <<>>
  /\ ftInflight = <<>>
  /\ ftPromises = <<>>
  /\ ftCallers = <<>>

\* Date.now() moves on
FtTick ==
  /\ ftNow < MaxTicks * TickMs
  /\ ftNow' = ftNow + TickMs
  /\ UNCHANGED <<ftCache, ftInflight, ftPromises, ftCallers>>
  /\ FtOnly

\* A call of spotifyFetchJson up to its first await, one synchronous run:
\* cache read; else attach to the registered promise; else create p (its body
\* runs to the first doFetch), register it and await it.
FtCall(c, k) ==
  /\ ftCallers[c].pc = "idle"
  /\ LET cached == spotifyCacheGet(ftCache, k, ftNow)
         cache1 == SpotifyCacheAfterGet(ftCache, k, ftNow)
     IN  IF cached # null THEN
           /\ ftCallers' = [ftCallers EXCEPT ![c] = FtGot(k, [returned |-> cached])]
           /\ ftCache' = cache1
           /\ UNCHANGED <<ftInflight, ftPromises>>
         ELSE IF InflightHas(ftInflight, k) THEN
           /\ ftCallers' = [ftCallers EXCEPT ![c] =
                  [pc |-> "attached", key |-> k, p |-> ftInflight[k], got |-> null]]
           /\ ftCache' = cache1
           /\ UNCHANGED <<ftInflight, ftPromises>>
         ELSE
           /\ FtFreeSlots # {}
           /\ LET p == CHOOSE q \in FtFreeSlots : \A m \in FtFreeSlots : q <= m
              IN  /\ ftPromises' = [ftPromises EXCEPT ![p] =
                         [key |-> k, pc |-> "fetch1", requests |-> 1,
                          status |-> "none", value |-> null]]
                  /\ ftInflight' = [ftInflight EXCEPT ![k] = p]
                  /\ ftCallers' = [ftCallers EXCEPT ![c] =
                         [pc |-> "owner", key |-> k, p |-> p, got |-> null]]
           /\ ftCache' = cache1
  /\ UNCHANGED ftNow
  /\ FtOnly

\* a retry on every 429, the second response included
RetryOn429Always(pc, r) == r = "429"

\* `if (res.status === 429)` is tested once, on the first response
RetryOn429(pc, r) == r = "429" /\ pc = "fetch1"

\* The response to a doFetch arrives and the rest of the body runs: a first
\* 429 goes to the backoff wait; otherwise res.json() is read, a non-OK
\* response throws, an OK one is cached and returned.
FtRespond(p, r) ==
  /\ p \in FtLive
  /\ ftPromises[p].pc \in {"fetch1", "fetch2"}
  /\ IF RetryOn429(ftPromises[p].pc, r) THEN
       /\ ftPromises' = [ftPromises EXCEPT ![p].pc = "backoff", ![p].status = r]
       /\ UNCHANGED ftCache
     ELSE IF r \in {"429", "error"} THEN
       /\ ftPromises' = [ftPromises EXCEPT ![p].pc = "rejected", ![p].status = r]
       /\ UNCHANGED ftCache
     ELSE
       LET json == IF r = "ok" THEN Json(ftPromises[p].key) ELSE null
       IN  /\ ftPromises' = [ftPromises EXCEPT ![p].pc = "resolved", ![p].status = r,
                                                ![p].value = json]
           /\ ftCache' = spotifyCacheSet(ftCache, ftPromises[p].key, json, ftNow)
  /\ UNCHANGED <<ftNow, ftInflight, ftCallers>>
  /\ FtOnly

\* the backoff timer fires: the second doFetch
FtRetry(p) ==
  /\ p \in FtLive
  /\ ftPromises[p].pc = "backoff"
  /\ ftPromises' = [ftPromises EXCEPT ![p].pc = "fetch2", ![p].requests = @ + 1]
  /\ UNCHANGED <<ftNow, ftCache, ftInflight, ftCallers>>
  /\ FtOnly

\* a creator whose finally deletes the key only after a success
FtOwnerResumeKeepsFailed(c) ==
  /\ ftCallers[c].pc = "owner"
  /\ FtSettled(ftCallers[c].p)
  /\ ftInflight' = IF ftPromises[ftCallers[c].p].pc = "resolved"
                   THEN [ftInflight EXCEPT ![ftCallers[c].key] = 0]
                   ELSE ftInflight
  /\ ftCallers' = [ftCallers EXCEPT ![c] = FtGot(@.key, FtOutcome(@.p))]
  /\ ftPromises' = FtCollect(ftPromises, ftCallers')
  /\ UNCHANGED <<ftNow, ftCache>>
  /\ FtOnly

\* the creator of p resumes from `await p`: finally deletes the key
FtOwnerResume(c) ==
  /\ ftCallers[c].pc = "owner"
  /\ FtSettled(ftCallers[c].p)
  /\ ftInflight' = [ftInflight EXCEPT ![ftCallers[c].key] = 0]
  /\ ftCallers' = [ftCallers EXCEPT ![c] = FtGot(@.key, FtOutcome(@.p))]
  /\ ftPromises' = FtCollect(ftPromises, ftCallers')
  /\ UNCHANGED <<ftNow, ftCache>>
  /\ FtOnly

\* a caller that was handed the registered promise gets its outcome
FtAttachedResume(c) ==
  /\ ftCallers[c].pc = "attached"
  /\ FtSettled(ftCallers[c].p)
  /\ ftCallers' = [ftCallers EXCEPT ![c] = FtGot(@.key, FtOutcome(@.p))]
  /\ ftPromises' = FtCollect(ftPromises, ftCallers')
  /\ UNCHANGED <<ftNow, ftCache, ftInflight>>
  /\ FtOnly

\* the caller's own code takes the outcome and goes on
FtReturn(c) ==
  /\ ftCallers[c].pc = "got"
  /\ ftCallers' = [ftCallers EXCEPT ![c] = FtIdle]
  /\ UNCHANGED <<ftNow, ftCache, ftInflight, ftPromises>>
  /\ FtOnly

FtNext ==
  \/ FtTick
  \/ \E c \in FtCallers, k \in FtKeys : FtCall(c, k)
  \/ \E p \in DOMAIN ftPromises, r \in FtResponses : FtRespond(p, r)
  \/ \E p \in DOMAIN ftPromises : FtRetry(p)
  \/ \E c \in FtCallers : FtOwnerResume(c)
  \/ \E c \in FtCallers : FtAttachedResume(c)
  \/ \E c \in FtCallers : FtReturn(c)

----------------------------------------------------------------------------
\* computeResultsForRange(accessToken, requestedRange, limit): the compute
\* cache and COMPUTE_INFLIGHT around the pipeline.  A key is the string
\* cKey = tokenKey + ":range:" + requestedRange + ":limit:" + limit.  The
\* pipeline itself is SpecPipeline; here a run is a body that is started, is
\* pending for a while and ends with a Result or with an error.

NCoKeys == 2
NCoCallers == 2
MaxRuns == 3
MaxCoTicks == 2

CoKeys == 1..NCoKeys
CoCallers == 1..NCoCallers

COMPUTE_TTL == 12000

CoTickMs == COMPUTE_TTL

\* the object `out` a run for cKey returns
CoResult(k) == [result |-> k]

\* computeCacheGet: the map after the read (an expired entry is deleted)
ComputeCacheAfterGet(cache, key, now) ==
  IF cache[key] # absent /\ now - cache[key].t > COMPUTE_TTL
  THEN [cache EXCEPT ![key] = absent]
  ELSE cache

\* computeCacheGet: the value returned
computeCacheGet(cache, key, now) ==
  IF cache[key] = absent THEN null
  ELSE IF now - cache[key].t > COMPUTE_TTL THEN null
  ELSE cache[key].v

\* computeCacheSet (the capacity of 120 entries is never reached here)
computeCacheSet(cache, key, value, now) ==
  [cache EXCEPT ![key] = [v |-> value, t |-> now]]

\* a caller that never finds the compute key registered
ComputeInflightHasNever(inflight, k) == FALSE

\* COMPUTE_INFLIGHT.has(cKey)
ComputeInflightHas(inflight, k) == inflight[k] # 0

CoSettled(p) == coRuns[p].pc \in {"resolved", "rejected"}

CoLive == {p \in DOMAIN coRuns : coRuns[p] # absent}

\* the runs whose pipeline is at work
CoPending == {p \in CoLive : ~CoSettled(p)}

CoFreeSlots == {p \in DOMAIN coRuns : coRuns[p] = absent}

\* a run record is kept while the pipeline works or a caller awaits it
CoCollect(runs, callers) ==
  [p \in DOMAIN runs |->
     IF /\ runs[p] # absent
        /\ runs[p].pc \in {"resolved", "rejected"}
        /\ \A c \in DOMAIN callers : callers[c].p # p
     THEN absent ELSE runs[p]]

CoOutcome(p) ==
  IF coRuns[p].pc = "resolved" THEN [returned |-> coRuns[p].value]
  ELSE [threw |-> "error"]

CoIdle == [pc |-> "idle", key |-> 0, p |-> 0, got |-> null]
CoGot(k, got) == [pc |-> "got", key |-> k, p |-> 0, got |-> got]

CoInit ==
  /\ coNow = 0
  /\ coCache = [k \in CoKeys |-> absent]
  /\ coInflight = [k \in CoKeys |-> 0]
  /\ coRuns = [p \in 1..MaxRuns |-> absent]
  /\ coCallers = [c \in CoCallers |-> CoIdle]

CoOff ==
  /\ coNow = 0
  /\ coCache = <<>>
  /\ coInflight = <<>>
  /\ coRuns = <<>>
  /\ coCallers = <<>>

CoTick ==
  /\ coNow < MaxCoTicks * CoTickMs
  /\ coNow' = coNow + CoTickMs
  /\ UNCHANGED <<coCache, coInflight, coRuns, coCallers>>
  /\ CoOnly

\* A call of computeResultsForRange up to its first await, one synchronous
\* run: cache read; else the registered promise is returned; else the
\* pipeline is started (it runs to its first await), registered and awaited.
CoCall(c, k) ==
  /\ coCallers[c].pc = "idle"
  /\ LET cached == computeCacheGet(coCache, k, coNow)
         cache1 == ComputeCacheAfterGet(coCache, k, coNow)
     IN  IF cached # null THEN
           /\ coCallers' = [coCallers EXCEPT ![c] = CoGot(k, [returned |-> cached])]
           /\ coCache' = cache1
           /\ UNCHANGED <<coInflight, coRuns>>
         ELSE IF ComputeInflightHas(coInflight, k) THEN
           /\ coCallers' = [coCallers EXCEPT ![c] =
                  [pc |-> "attached", key |-> k, p |-> coInflight[k], got |-> null]]
           /\ coCache' = cache1
           /\ UNCHANGED <<coInflight, coRuns>>
         ELSE
           /\ CoFreeSlots # {}
           /\ LET p == CHOOSE q \in CoFreeSlots : \A m \in CoFreeSlots : q <= m
              IN  /\ coRuns' = [coRuns EXCEPT ![p] =
                         [key |-> k, pc |-> "pipeline", startedBy |-> c, value |-> null]]
                  /\ coInflight' = [coInflight EXCEPT ![k] = p]
                  /\ coCallers' = [coCallers EXCEPT ![c] =
                         [pc |-> "owner", key |-> k, p |-> p, got |-> null]]
           /\ coCache' = cache1
  /\ UNCHANGED coNow
  /\ CoOnly

\* the pipeline of a run reaches its end: computeCacheSet(cKey, out); return out
CoPipelineReturn(p) ==
  /\ p \in CoLive
  /\ coRuns[p].pc = "pipeline"
  /\ coRuns' = [coRuns EXCEPT ![p].pc = "resolved", ![p].value = CoResult(coRuns[p].key)]
  /\ coCache' = computeCacheSet(coCache, coRuns[p].key, CoResult(coRuns[p].key), coNow)
  /\ UNCHANGED <<coNow, coInflight, coCallers>>
  /\ CoOnly

\* the pipeline of a run throws (a lookup outside any catch fails)
CoPipelineThrow(p) ==
  /\ p \in CoLive
  /\ coRuns[p].pc = "pipeline"
  /\ coRuns' = [coRuns EXCEPT ![p].pc = "rejected"]
  /\ UNCHANGED <<coNow, coCache, coInflight, coCallers>>
  /\ CoOnly

\* the caller that started the run resumes from `await p`: finally deletes
\* the compute key
CoOwnerResume(c) ==
  /\ coCallers[c].pc = "owner"
  /\ CoSettled(coCallers[c].p)
  /\ coInflight' = [coInflight EXCEPT ![coCallers[c].key] = 0]
  /\ coCallers' = [coCallers EXCEPT ![c] = CoGot(@.key, CoOutcome(@.p))]
  /\ coRuns' = CoCollect(coRuns, coCallers')
  /\ UNCHANGED <<coNow, coCache>>
  /\ CoOnly

\* a caller that was handed the registered promise gets that run's outcome
CoAttachedResume(c) ==
  /\ coCallers[c].pc = "attached"
  /\ CoSettled(coCallers[c].p)
  /\ coCallers' = [coCallers EXCEPT ![c] = CoGot(@.key, CoOutcome(@.p))]
  /\ coRuns' = CoCollect(coRuns, coCallers')
  /\ UNCHANGED <<coNow, coCache, coInflight>>
  /\ CoOnly

\* the route handler takes the outcome (res.json(out) or the 500 answer)
CoReturn(c) ==
  /\ coCallers[c].pc = "got"
  /\ coCallers' = [coCallers EXCEPT ![c] = CoIdle]
  /\ UNCHANGED <<coNow, coCache, coInflight, coRuns>>
  /\ CoOnly

CoNext ==
  \/ CoTick
  \/ \E c \in CoCallers, k \in CoKeys : CoCall(c, k)
  \/ \E p \in DOMAIN coRuns : CoPipelineReturn(p)
  \/ \E p \in DOMAIN coRuns : CoPipelineThrow(p)
  \/ \E c \in CoCallers : CoOwnerResume(c)
  \/ \E c \in CoCallers : CoAttachedResume(c)
  \/ \E c \in CoCallers : CoReturn(c)

----------------------------------------------------------------------------
\* Colour classification.  A hex string "#RRGGBB" is kept as the number
\* parseInt reads from it, 0xRRGGBB; `hex: null` is NoHex.

NoHex == -1

\* rgbToHex: two hex digits per channel
rgbToHex(r, g, b) == (r * 65536) + (g * 256) + b

\* hexToRgb: (n >> 16) & 255, (n >> 8) & 255, n & 255
hexToRgb(hex) ==
  [r |-> (hex \div 65536) % 256, g |-> (hex \div 256) % 256, b |-> hex % 256]

\* rgbToHsv on channels 0..255, in exact arithmetic: mx = 255 v,
\* d = 255 (max - min), hd = h * d with h the hue in degrees (so h < t is
\* hd < t * d), s = d / mx
rgbToHsv(r, g, b) ==
  LET mx == Max(r, Max(g, b))
      d  == mx - Min(r, Min(g, b))
  IN  [mx |-> mx,
       d  |-> d,
       hd |-> IF d = 0 THEN 0
              ELSE IF mx = r THEN (60 * (g - b)) + (IF g < b THEN 360 * d ELSE 0)
              ELSE IF mx = g THEN (60 * (b - r)) + (120 * d)
              ELSE (60 * (r - g)) + (240 * d)]

\* The source computes h, s and v in doubles.  A double and the real number
\* it stands for fall on the same side of every threshold the real number is
\* not on; v is never on one (0.14 * 255 and 0.9 * 255 are no integers).  A
\* real s or h that lies on a threshold may come out below it as a double
\* (#292932 has s = 9/50, computed 0.17999999999999997, and is grey;
\* #251009 has h = 15, computed below 15, and is red).  sLow, hLow: the
\* double of s, of h, is below the threshold its real value lies on.

\* the hue tests without the final `return "pink"`
HueBucketNoDefault(hd, d, hLow) ==
  LET Lt(t) == hd < t * d \/ (d > 0 /\ hd = t * d /\ hLow)
  IN  IF ~Lt(330) \/ Lt(15) THEN "red"
      ELSE IF Lt(45) THEN "orange"
      ELSE IF Lt(75) THEN "yellow"
      ELSE IF Lt(160) THEN "green"
      ELSE IF Lt(250) THEN "blue"
      ELSE IF Lt(290) THEN "purple"
      ELSE "undefined"

\* the hue tests with purple reaching to 320
HueBucketPurpleTo320(hd, d, hLow) ==
  LET Lt(t) == hd < t * d \/ (d > 0 /\ hd = t * d /\ hLow)
  IN  IF ~Lt(330) \/ Lt(15) THEN "red"
      ELSE IF Lt(45) THEN "orange"
      ELSE IF Lt(75) THEN "yellow"
      ELSE IF Lt(160) THEN "green"
      ELSE IF Lt(250) THEN "blue"
      ELSE IF Lt(320) THEN "purple"
      ELSE "pink"

\* hexToSimpleBucket, the tests on h
HueBucket(hd, d, hLow) ==
  LET Lt(t) == hd < t * d \/ (d > 0 /\ hd = t * d /\ hLow)     \* h < t
  IN  IF ~Lt(330) \/ Lt(15) THEN "red"
      ELSE IF Lt(45) THEN "orange"
      ELSE IF Lt(75) THEN "yellow"
      ELSE IF Lt(160) THEN "green"
      ELSE IF Lt(250) THEN "blue"
      ELSE IF Lt(290) THEN "purple"
      ELSE "pink"

\* hexToSimpleBucket with the grey test ahead of the white test
hexToSimpleBucketGreyFirst(hex, sLow, hLow) ==
  LET c   == hexToRgb(hex)
      hsv == rgbToHsv(c.r, c.g, c.b)
      mx  == hsv.mx
      d   == hsv.d
      SLt(n, m) == (d * m < n * mx) \/ (mx > 0 /\ d * m = n * mx /\ sLow)
  IN  IF mx * 100 < 14 * 255 THEN "black"
      ELSE IF SLt(18, 100) THEN "grey"
      ELSE IF mx * 10 > 9 * 255 /\ SLt(1, 10) THEN "white"
      ELSE HueBucket(hsv.hd, d, hLow)

hexToSimpleBucketAt(hex, sLow, hLow) ==
  LET c   == hexToRgb(hex)
      hsv == rgbToHsv(c.r, c.g, c.b)
      mx  == hsv.mx
      d   == hsv.d
      SLt(n, m) == (d * m < n * mx) \/ (mx > 0 /\ d * m = n * mx /\ sLow)  \* s < n / m
  IN  IF mx * 100 < 14 * 255 THEN "black"                       \* v < 0.14
      ELSE IF mx * 10 > 9 * 255 /\ SLt(1, 10) THEN "white"      \* v > 0.9, s < 0.1
      ELSE IF SLt(18, 100) THEN "grey"                          \* s < 0.18
      ELSE HueBucket(hsv.hd, d, hLow)

\* hexToSimpleBucket on a colour whose s and h are computed on the side of
\* the thresholds their real values are on: every colour off the thresholds,
\* as the colours of the albums below are
hexToSimpleBucket(hex) == hexToSimpleBucketAt(hex, FALSE, FALSE)

\* targetBucketToHSVCenter(bucket): h in degrees, s and v in hundredths
targetBucketToHSVCenter(bucket) ==
  IF bucket = "white" THEN [h |-> 0, s |-> 3, v |-> 96, type |-> "neutral"]
  ELSE IF bucket = "grey" THEN [h |-> 0, s |-> 10, v |-> 55, type |-> "neutral"]
  ELSE IF bucket = "black" THEN [h |-> 0, s |-> 10, v |-> 10, type |-> "neutral"]
  ELSE [h |-> CASE bucket = "red" -> 0
                [] bucket = "orange" -> 30
                [] bucket = "yellow" -> 60
                [] bucket = "green" -> 120
                [] bucket = "blue" -> 210
                [] bucket = "purple" -> 270
                [] bucket = "pink" -> 315
                [] OTHER -> 0,
        s |-> 45, v |-> 62, type |-> "hue"]

----------------------------------------------------------------------------
\* The listener's data as the upstream lookups deliver it.
\*
\* NEntries albums each sit in one place of the listener's data (or nowhere):
\* the requested window's first page ("top"), its deeper pages ("deep"), the
\* saved albums, the albums of the top artists, the other windows' pages
\* ("other"), or the other windows' pages behind FarPad albums that carry no
\* image ("far").  Next to them the first page holds one album for each of
\* the colours from yellow on and NMoreYellow further yellow albums, their
\* images already in DOMINANT_CACHE.

NEntries == 4
FarPad == 515

Entries == 1..NEntries

Places == {"none", "top", "deep", "saved", "artist", "other", "far"}

\* What the upstream holds for entry e.  Entries 2k-1 and 2k are two listings
\* of one album id under different names and images; the image of an odd
\* entry averages to a red, that of an even one to an orange.  confidence is
\* what getDominantFromImage computes for the image, score and appearances
\* what gatherTopTrackCandidates sums up at timeWeight 1.0, total_tracks the
\* album's track count (every one is a full album), bonus the bonus[primary]
\* of the album's primary artist: the one of entries 1, 5, .. leads the 12
\* top artists, (12 - 0) / 22.
\* The four mentions of entries 1, 5, .. sum to 3.2, above DOMINANCE_CAP.
Entry(e) ==
  [id          |-> (e + 1) \div 2,
   img         |-> e,
   rgb         |-> IF e % 2 = 1 THEN <<200, 30, 30>> ELSE <<230, 120, 30>>,
   confidence  |-> <<30, 30, 16, 5>>[((e - 1) % 4) + 1],
   score       |-> <<320, 200, 100, 100>>[((e - 1) % 4) + 1],
   appearances |-> <<4, 3, 1, 1>>[((e - 1) % 4) + 1],
   total_tracks |-> 10,
   bonus       |-> IF e % 4 = 1 THEN 55 ELSE 0]

NMoreYellow == 7

FillerColors ==
  SubSeq(COLOR_ORDER, 3, Len(COLOR_ORDER)) \o [i \in 1..NMoreYellow |-> "yellow"]

\* the first-page album of colour FillerColors[i]
Filler(i) ==
  [id  |-> 100 + i,
   img |-> 100 + i,
   rgb |-> IF i > Len(COLOR_ORDER) - 2 THEN <<230, 220, 30 + i>>
           ELSE <<<<230, 220, 40>>, <<40, 180, 60>>, <<40, 80, 200>>,
                  <<140, 60, 200>>, <<230, 60, 200>>, <<250, 250, 250>>,
                  <<128, 128, 128>>, <<10, 10, 10>>>>[i]]

\* getDominantFromImage(url) when the image is fetched and decoded
getDominantFromImage(img) ==
  IF img > 100
  THEN [hex |-> rgbToHex(Filler(img - 100).rgb[1], Filler(img - 100).rgb[2],
                         Filler(img - 100).rgb[3]),
        confidence |-> 50]
  ELSE [hex |-> rgbToHex(Entry(img).rgb[1], Entry(img).rgb[2], Entry(img).rgb[3]),
        confidence |-> Entry(img).confidence]

\* total_tracks of an album object that has none (undefined)
NoTracks == -1

\* typeof t === "number" && t < 1
isOneTrackAlbumBelowOne(albumLike) ==
  albumLike.total_tracks # NoTracks /\ albumLike.total_tracks < 1

\* typeof t === "number" && t <= 1
isOneTrackAlbum(albumLike) ==
  albumLike.total_tracks # NoTracks /\ albumLike.total_tracks <= 1

\* an album object of gatherTopTrackCandidates (it has no `source` field:
\* "none"), not yet enriched
TrackCandidate(id, img, total_tracks, score, appearances) ==
  [id |-> id, img |-> img, total_tracks |-> total_tracks, score |-> score,
   appearances |-> appearances, count |-> appearances, hex |-> NoHex,
   confidence |-> 0, source |-> "none"]

EntryCandidate(e, timeWeight) ==
  TrackCandidate(Entry(e).id, Entry(e).img, Entry(e).total_tracks,
                 (Entry(e).score * timeWeight) \div 100, Entry(e).appearances)

FillerCandidate(i) == TrackCandidate(Filler(i).id, Filler(i).img, 10, 100, 1)

\* the entries of a place, in the order of the upstream list
RECURSIVE EntriesAtFrom(_, _, _)
EntriesAtFrom(place, where, e) ==
  IF e > NEntries THEN <<>>
  ELSE (IF place[e] = where THEN <<e>> ELSE <<>>) \o EntriesAtFrom(place, where, e + 1)

EntriesAt(place, where) == EntriesAtFrom(place, where, 1)

\* stable sort, as Array.prototype.sort: x goes behind every element it does
\* not precede
RECURSIVE InsertSorted(_, _, _)
InsertSorted(x, sorted, byStrength) ==
  IF sorted = <<>> THEN <<x>>
  ELSE LET y == Head(sorted)
           c == IF byStrength THEN cmpAlbumStrength(x, y) ELSE y.score - x.score
       IN  IF c < 0 THEN <<x>> \o sorted
           ELSE <<y>> \o InsertSorted(x, Tail(sorted), byStrength)

\* F(x), with x evaluated once, before F
Bind(x, F(_)) == CHOOSE y \in {F(v) : v \in {x}} : TRUE

RECURSIVE SortFrom(_, _, _, _)
SortFrom(list, i, acc, byStrength) ==
  IF i > Len(list) THEN acc
  ELSE Bind(InsertSorted(list[i], acc, byStrength),
            LAMBDA next : SortFrom(list, i + 1, next, byStrength))

\* .sort((a, b) => b.score - a.score)
SortByScore(list) == Bind(list, LAMBDA l : SortFrom(l, 1, <<>>, FALSE))

\* .sort((x, y) => cmpAlbumStrength(x, y))
SortByStrength(list) == Bind(list, LAMBDA l : SortFrom(l, 1, <<>>, TRUE))

\* list.slice(0, n)
Slice(list, n) == SubSeq(list, 1, Min(n, Len(list)))

----------------------------------------------------------------------------
\* computeResultsForRange, the pieces of the pipeline

DOMINANCE_CAP == 300

\* gatherTopTrackCandidates(requestedRange, pages: 1, pageSize: limit)
TopCandidates(place) ==
  SortByScore([i \in 1..Len(EntriesAt(place, "top")) |->
                 EntryCandidate(EntriesAt(place, "top")[i], 100)]
              \o [i \in 1..Len(FillerColors) |-> FillerCandidate(i)])

\* album.score += bonus[primary]; nothing is added when fetchTopArtists threw
WithBonus(cands, artistsOk) ==
  [i \in 1..Len(cands) |->
     IF artistsOk /\ cands[i].img \in Entries
     THEN [cands[i] EXCEPT !.score = @ + Entry(cands[i].img).bonus]
     ELSE cands[i]]

\* candidates.map(a => ({ ...a, score: Math.min(a.score, DOMINANCE_CAP) }))
\*   .sort((a, b) => b.score - a.score).slice(0, 35)
Limited(cands) ==
  Slice(SortByScore([i \in 1..Len(cands) |->
                       [cands[i] EXCEPT !.score = Min(@, DOMINANCE_CAP)]]),
        35)

\* the body of enrichWithDominant for one album; failed holds the images
\* whose getDominantFromImage throws in this call.  Every album of the model
\* has an image.
EnrichOne(a, failed) ==
  IF a.img \in failed
  THEN [a EXCEPT !.hex = NoHex, !.confidence = 0]
  ELSE [a EXCEPT !.hex = getDominantFromImage(a.img).hex,
                 !.confidence = getDominantFromImage(a.img).confidence]

enrichWithDominant(albums, failed) ==
  [i \in 1..Len(albums) |-> EnrichOne(albums[i], failed)]

\* buckets[c] after bucketize and sort
BucketOf(limited, color) ==
  SortByStrength(SelectSeq(limited,
                           LAMBDA a : a.hex # NoHex /\ hexToSimpleBucket(a.hex) = color))

emptyBucket == [top |-> null, others |-> <<>>]

buildEmptyResult == [c \in Colors |-> emptyBucket]

\* others: list.slice(0, 6), the top left in
PickedBucketUnfiltered(list, requestedRange, color) ==
  Bind(PickTopOfBucket(list, requestedRange, color),
       LAMBDA top : [top |-> top, others |-> Slice(list, 6)])

\* result[color] = { top, others: list.filter(x => x.id !== top.id).slice(0, 6) }
PickedBucket(list, requestedRange, color) ==
  Bind(PickTopOfBucket(list, requestedRange, color),
       LAMBDA top :
         [top |-> top,
          others |-> IF top = null THEN <<>>
                     ELSE Slice(SelectSeq(list, LAMBDA x : x.id # top.id), 6)])

PickTops(limited, requestedRange) ==
  [c \in Colors |->
     Bind(BucketOf(limited, c), LAMBDA list : PickedBucket(list, requestedRange, c))]

\* a set of used ids that is always empty
getUsedAlbumIdsNone(result) == {}

getUsedAlbumIds(result) ==
  {result[c].top.id : c \in {k \in Colors : result[k].top # null}}

\* COLOR_ORDER.filter(c => !result[c].top)
missing(result) == SelectSeq(COLOR_ORDER, LAMBDA c : result[c].top = null)

\* enforceUniqueTops from COLOR_ORDER[i] on; seen is the Map albumId -> color
\* as a set of pairs
RECURSIVE EnforceUniqueFrom(_, _, _)
EnforceUniqueFrom(result, seen, i) ==
  IF i > Len(COLOR_ORDER) THEN result
  ELSE
    LET color == COLOR_ORDER[i]
        a     == result[color].top
    IN  IF a = null THEN EnforceUniqueFrom(result, seen, i + 1)
        ELSE IF ~(\E p \in seen : p[1] = a.id)
             THEN EnforceUniqueFrom(result, seen \cup {<<a.id, color>>}, i + 1)
        ELSE
          LET otherColor == (CHOOSE p \in seen : p[1] = a.id)[2]
              b          == result[otherColor].top
          IN  IF cmpAlbumStrength(a, b) < 0
              THEN Bind([result EXCEPT ![color] = emptyBucket],
                        LAMBDA r : EnforceUniqueFrom(r, seen, i + 1))
              ELSE Bind([result EXCEPT ![otherColor] = emptyBucket],
                        LAMBDA r : EnforceUniqueFrom(
                                     r,
                                     (seen \ {<<a.id, otherColor>>})
                                        \cup {<<a.id, color>>},
                                     i + 1))

\* a uniqueness pass that changes nothing
enforceUniqueTopsNone(result) == result

enforceUniqueTops(result) == Bind(result, LAMBDA r : EnforceUniqueFrom(r, {}, 1))

\* { hex: null, confidence: 0 }, what the scans put for a sampling that throws
NoSample == [hex |-> NoHex, confidence |-> 0]

\* An album object of a saved-albums or artist-albums page, with what
\* getDominantFromImage gives for its image: id 0 is a missing id, img 0 a
\* missing image.
AlbumItem(id, img, total_tracks, sample) ==
  [id |-> id, img |-> img, total_tracks |-> total_tracks, sample |-> sample]

\* the albums of a place as the items of the scans; failed holds the images
\* whose sampling throws during this scan
EntryItems(place, where, failed) ==
  [i \in 1..Len(EntriesAt(place, where)) |->
     LET e == EntriesAt(place, where)[i]
     IN  AlbumItem(Entry(e).id, Entry(e).img, Entry(e).total_tracks,
                   IF Entry(e).img \in failed THEN NoSample
                   ELSE getDominantFromImage(Entry(e).img))]

\* the candidate object built by the saved and the artist scans
BackfillCandidate(it, source) ==
  [id |-> it.id, img |-> it.img, total_tracks |-> it.total_tracks, score |-> 0,
   appearances |-> 0, count |-> 0, hex |-> it.sample.hex,
   confidence |-> it.sample.confidence, source |-> source]

\* the tests an album passes before its image is sampled
ScanSamples(it, usedIds) ==
  /\ it.id # 0
  /\ it.id \notin usedIds
  /\ ~isOneTrackAlbum(it)
  /\ it.img # 0

\* an acceptance without the confidence floor
ScanAcceptsNoFloor(it, targetColor, minConf) ==
  /\ it.sample.hex # NoHex
  /\ hexToSimpleBucket(it.sample.hex) = targetColor

\* an acceptance without the test of the bucket
ScanAcceptsAnyColor(it, targetColor, minConf) ==
  /\ it.sample.hex # NoHex
  /\ it.sample.confidence >= minConf

\* the tests a sampling passes before the album may become `best`
ScanAccepts(it, targetColor, minConf) ==
  /\ it.sample.hex # NoHex
  /\ it.sample.confidence >= minConf
  /\ hexToSimpleBucket(it.sample.hex) = targetColor

\* findSavedAlbumBackfillForColor over the saved items from index i on.  The
\* items fit the first page, which is shorter than PAGE_SIZE.
RECURSIVE SavedScanFrom(_, _, _, _, _, _)
SavedScanFrom(items, i, best, targetColor, usedIds, minConf) ==
  IF i > Len(items) THEN best
  ELSE
    LET it == items[i]
        take == /\ ScanSamples(it, usedIds)
                /\ ScanAccepts(it, targetColor, minConf)
                /\ (best = null \/ it.sample.confidence > best.confidence)
    IN  Bind(IF take THEN BackfillCandidate(it, "saved") ELSE best,
             LAMBDA next : SavedScanFrom(items, i + 1, next, targetColor, usedIds,
                                         minConf))

findSavedAlbumBackfillForColor(items, targetColor, usedIds, minConf) ==
  SavedScanFrom(items, 1, null, targetColor, usedIds, minConf)

\* findArtistBackfillForColor: the candidates list, the albums of the top
\* artists in the order of the pages (ids seen before are skipped; the caps
\* are never reached)
RECURSIVE ArtistCandidatesFrom(_, _, _, _)
ArtistCandidatesFrom(items, i, seenAlbumIds, usedIds) ==
  IF i > Len(items) THEN <<>>
  ELSE IF ~ScanSamples(items[i], usedIds) \/ items[i].id \in seenAlbumIds
       THEN ArtistCandidatesFrom(items, i + 1, seenAlbumIds, usedIds)
  ELSE <<items[i]>> \o ArtistCandidatesFrom(items, i + 1,
                                             seenAlbumIds \cup {items[i].id},
                                             usedIds)

\* findArtistBackfillForColor: the values `best` can end with.  The mapLimit
\* callbacks finish in any order and a later one replaces best only with a
\* strictly higher confidence, so best is any accepted candidate of the
\* highest confidence.
findArtistBackfillForColor(items, targetColor, usedIds, minConf) ==
  LET candidates == ArtistCandidatesFrom(items, 1, {}, usedIds)
      accepted == {candidates[i] : i \in
                     {j \in 1..Len(candidates) :
                        ScanAccepts(candidates[j], targetColor, minConf)}}
      highest == {it \in accepted :
                    \A f \in accepted : f.sample.confidence <= it.sample.confidence}
  IN  IF accepted = {} THEN {null}
      ELSE {BackfillCandidate(it, "artist") : it \in highest}

\* A pool of top-track candidates: the albums that carry an image, each with
\* its index in the pool array (from 0), and the length of the array.
emptyPool == [cands |-> <<>>, at |-> <<>>, len |-> 0]

PoolOf(cands, padBefore, far) ==
  [cands |-> cands \o far,
   at    |-> [i \in 1..(Len(cands) + Len(far)) |->
                IF i <= Len(cands) THEN i - 1
                ELSE Len(cands) + padBefore + (i - Len(cands)) - 1],
   len   |-> Len(cands) + (IF far = <<>> THEN 0 ELSE padBefore + Len(far))]

EntryCandidates(place, where, timeWeight) ==
  [i \in 1..Len(EntriesAt(place, where)) |->
     EntryCandidate(EntriesAt(place, where)[i], timeWeight)]

\* widePool: the requested window's pages (maxUnique 340), then the other
\* windows' at timeWeight 0.55
WidePool(place) ==
  PoolOf(SortByScore(EntryCandidates(place, "top", 100)
                     \o EntryCandidates(place, "deep", 100)
                     \o [i \in 1..Len(FillerColors) |-> FillerCandidate(i)])
         \o EntryCandidates(place, "other", 55),
         FarPad,
         EntryCandidates(place, "far", 55))

\* pool of the stage of last resort: the other windows only, the first of
\* them at w = 0.6 or 0.55, the second at 0.55 or 0.5
LastPool(place, requestedRange) ==
  PoolOf(EntryCandidates(place, "other",
                         IF requestedRange = "short_term" THEN 55 ELSE 60),
         FarPad,
         EntryCandidates(place, "far",
                         IF requestedRange = "long_term" THEN 55 ELSE 50))

\* enrichWithDominant(pool.slice(0, n))
EnrichSlice(pool, n, failed) ==
  [pool EXCEPT !.cands =
     [i \in 1..Len(pool.cands) |->
        IF pool.at[i] < n THEN EnrichOne(pool.cands[i], failed)
        ELSE pool.cands[i]]]

\* enrichMoreIfNeeded(pool, startIndex, count)
enrichMoreIfNeeded(pool, startIndex, count, failed) ==
  [pool EXCEPT !.cands =
     [i \in 1..Len(pool.cands) |->
        IF /\ pool.at[i] >= startIndex
           /\ pool.at[i] < startIndex + count
           /\ pool.cands[i].hex = NoHex
        THEN EnrichOne(pool.cands[i], failed)
        ELSE pool.cands[i]]]

RECURSIVE PoolScanFrom(_, _, _, _, _, _)
PoolScanFrom(cands, i, best, targetColor, usedIds, minConf) ==
  IF i > Len(cands) THEN best
  ELSE
    LET a == cands[i]
        take == /\ a.id \notin usedIds
                /\ a.hex # NoHex
                /\ a.confidence >= minConf
                /\ hexToSimpleBucket(a.hex) = targetColor
                /\ (best = null \/ cmpAlbumStrength(a, best) < 0)
    IN  Bind(IF take THEN a ELSE best,
             LAMBDA next : PoolScanFrom(cands, i + 1, next, targetColor, usedIds,
                                        minConf))

pickBestMatchingFromPool(pool, targetColor, usedIds, minConf) ==
  PoolScanFrom(pool.cands, 1, null, targetColor, usedIds, minConf)

\* the images enrichWithDominant fetches for pool.slice(from, to): those not
\* yet in DOMINANT_CACHE
SampledIn(pool, from, to) ==
  {pool.cands[i].img : i \in {j \in 1..Len(pool.cands) :
                                /\ pool.at[j] >= from
                                /\ pool.at[j] < to
                                /\ pool.cands[j].img \in Entries}}

----------------------------------------------------------------------------
\* SpecPipeline: one run of the body of computeResultsForRange.  A step is
\* the code from one await to the next; the lookups and the colour samplings
\* of a step succeed or fail as the upstream decides, at most MaxFailures of
\* them failing in one run.

MaxFailures == 1

\* the images whose sampling throws in one step
FailSets(images) ==
  {f \in SUBSET images : Cardinality(f) <= MaxFailures - plFailures}

\* the images a scan of the albums at a place samples: used ids are skipped
\* before the sampling (none is used yet when the first page is enriched)
ScannedAt(where) ==
  {Entry(e).img : e \in {x \in Entries : /\ plPlace[x] = where
                                          /\ Entry(x).id \notin getUsedAlbumIds(plResult)}}

\* the `if (missing().length >= 2)` of the widening, asking for three
WidenAtThree(n) == n >= 3

\* a widening whenever a bucket is empty
WidenAtOne(n) == n >= 1

\* if (missing().length >= 2)
WidenAt(n) == n >= 2

\* the wide top-tracks pool standing after the `if` of the widening instead of
\* inside it
EnterWideAlone(stage, r) ==
  IF missing(r) = <<>> THEN [pc |-> "done", todo |-> <<>>]
  ELSE IF stage = "widen"
       THEN IF WidenAt(Len(missing(r)))
            THEN [pc |-> "saved_wide", todo |-> missing(r)]
            ELSE [pc |-> "wide", todo |-> <<>>]
  ELSE IF stage \in {"wide", "last"} THEN [pc |-> stage, todo |-> <<>>]
  ELSE [pc |-> stage, todo |-> missing(r)]

\* Where the run goes on when it comes to a stage with result r.  With no
\* bucket empty every loop and every `if` that is left is passed and the run
\* ends; before the widened scans stands the test on missing().length.
Enter(stage, r) ==
  IF missing(r) = <<>> THEN [pc |-> "done", todo |-> <<>>]
  ELSE IF stage = "widen"
       THEN IF WidenAt(Len(missing(r)))
            THEN [pc |-> "saved_wide", todo |-> missing(r)]
            ELSE [pc |-> "last", todo |-> <<>>]
  ELSE IF stage \in {"wide", "last"} THEN [pc |-> stage, todo |-> <<>>]
  ELSE [pc |-> stage, todo |-> missing(r)]

\* The run goes on to a stage with result r, after `calls` calls of
\* enforceUniqueTops in this step.  When nothing is left to do the code runs
\* on to its end without another await: enforceUniqueTops(result), out is
\* built and returned.
PlGoto(stage, r, calls) ==
  \E nx \in {Enter(stage, r)} :
    /\ plPc' = nx.pc
    /\ plTodo' = nx.todo
    /\ plResult' = IF nx.pc = "done" THEN enforceUniqueTops(r) ELSE r
    /\ plOutcome' = IF nx.pc = "done" THEN "resolved" ELSE plOutcome
    /\ plEnforced' = plEnforced + calls + (IF nx.pc = "done" THEN 1 ELSE 0)

\* the end of one pass of a `for (color of missing())` whose body awaits:
\* the next colour of the array, or the next stage
PlNextColor(r, nextStage) ==
  IF Tail(plTodo) # <<>>
  THEN /\ plTodo' = Tail(plTodo)
       /\ plResult' = r
       /\ UNCHANGED <<plPc, plOutcome, plEnforced>>
  ELSE PlGoto(nextStage, r, 0)

\* if (pick) { result[color] = { top: pick, others: [] }; backfilledBy[color] = label }
Filled(r, color, pick) ==
  IF pick = null THEN r ELSE [r EXCEPT ![color] = [top |-> pick, others |-> <<>>]]

Labelled(by, color, pick, label) ==
  IF pick = null THEN by ELSE [by EXCEPT ![color] = label]

\* the `for (color of missing())` over a pool, which has no await: todo is
\* the array missing() returned, usedIds() is read anew for every colour
RECURSIVE PoolPicks(_, _, _, _, _, _, _)
PoolPicks(pool, r, by, todo, i, minConf, label) ==
  IF i > Len(todo) THEN [result |-> r, by |-> by]
  ELSE
    LET color == todo[i]
        pick  == pickBestMatchingFromPool(pool, color, getUsedAlbumIds(r), minConf)
        top   == IF pick = null THEN null ELSE [pick EXCEPT !.source = label]
    IN  Bind(<<Filled(r, color, top), Labelled(by, color, top, label)>>,
             LAMBDA next : PoolPicks(pool, next[1], next[2], todo, i + 1, minConf,
                                     label))

PlS == strictnessForRange(plRange)

PlInit ==
  /\ plPc = "select"
  /\ plRange \in Ranges
  /\ plPlace \in [Entries -> Places]
  /\ plTodo = <<>>
  /\ plResult = buildEmptyResult
  /\ plBackfilledBy = [c \in Colors |-> "none"]
  /\ plFailures = 0
  /\ plOutcome = "pending"
  /\ plPool = emptyPool
  /\ plIdx = 0
  /\ plEnforced = 0

PlOff ==
  /\ plPc = "off"
  /\ plRange = "short_term"
  /\ plPlace = [e \in Entries |-> "none"]
  /\ plTodo = <<>>
  /\ plResult = buildEmptyResult
  /\ plBackfilledBy = [c \in Colors |-> "none"]
  /\ plFailures = 0
  /\ plOutcome = "off"
  /\ plPool = emptyPool
  /\ plIdx = 0
  /\ plEnforced = 0

\* 1) The requested window's candidates are gathered, the top-artist bonus is
\* added (a failing fetchTopArtists is caught), the list is capped, sorted,
\* cut and enriched, the buckets are built and their tops picked, and
\* enforceUniqueTops runs.
PlSelect ==
  /\ plOutcome = "pending" /\ plPc = "select"
  /\ \E artistsOk \in BOOLEAN, failed \in FailSets(ScannedAt("top")) :
       LET n == Cardinality(failed) + (IF artistsOk THEN 0 ELSE 1)
           candidates == WithBonus(TopCandidates(plPlace), artistsOk)
       IN  /\ plFailures + n <= MaxFailures
           /\ plFailures' = plFailures + n
           /\ \E limited \in {enrichWithDominant(Limited(candidates), failed)} :
               \E result \in {enforceUniqueTops(PickTops(limited, plRange))} :
                 PlGoto("saved", result, 1)
  /\ UNCHANGED <<plRange, plPlace, plBackfilledBy, plPool, plIdx>>
  /\ PlOnly

\* fetchTopTracks of the first gatherTopTrackCandidates rejects
PlSelectThrow ==
  /\ plOutcome = "pending" /\ plPc = "select"
  /\ plFailures < MaxFailures
  /\ plFailures' = plFailures + 1
  /\ plOutcome' = "rejected"
  /\ UNCHANGED <<plPc, plRange, plPlace, plTodo, plResult, plBackfilledBy,
                 plPool, plIdx, plEnforced>>
  /\ PlOnly

\* one pass of a saved-albums loop: findSavedAlbumBackfillForColor(...)
\* .catch(() => null), then the write of the pick
PlSavedPass(minConf, label, nextStage) ==
  \E lookupOk \in BOOLEAN, failed \in FailSets(ScannedAt("saved")) :
    LET color == Head(plTodo)
        n == Cardinality(failed) + (IF lookupOk THEN 0 ELSE 1)
        pick == IF lookupOk
                THEN findSavedAlbumBackfillForColor(
                       EntryItems(plPlace, "saved", failed), color,
                       getUsedAlbumIds(plResult), minConf)
                ELSE null
    IN  /\ plFailures + n <= MaxFailures
        /\ plFailures' = plFailures + n
        /\ \E got \in {pick} :
             /\ plBackfilledBy' = Labelled(plBackfilledBy, color, got, label)
             /\ \E r \in {Filled(plResult, color, got)} : PlNextColor(r, nextStage)

\* one pass of a top-artists loop: findArtistBackfillForColor(...)
\* .catch(() => null), then the write of the pick
PlArtistPass(minConf, label, nextStage) ==
  \E lookupOk \in BOOLEAN, failed \in FailSets(ScannedAt("artist")) :
    LET color == Head(plTodo)
        n == Cardinality(failed) + (IF lookupOk THEN 0 ELSE 1)
    IN  /\ plFailures + n <= MaxFailures
        /\ plFailures' = plFailures + n
        /\ \E pick \in (IF lookupOk
                        THEN findArtistBackfillForColor(
                               EntryItems(plPlace, "artist", failed), color,
                               getUsedAlbumIds(plResult), minConf)
                        ELSE {null}) :
             /\ plBackfilledBy' = Labelled(plBackfilledBy, color, pick, label)
             /\ \E r \in {Filled(plResult, color, pick)} : PlNextColor(r, nextStage)

\* 2) saved
PlSaved ==
  /\ plOutcome = "pending" /\ plPc = "saved"
  /\ PlSavedPass(PlS.minConf, "saved", "artist")
  /\ UNCHANGED <<plRange, plPlace, plPool, plIdx>>
  /\ PlOnly

\* 3) artists
PlArtist ==
  /\ plOutcome = "pending" /\ plPc = "artist"
  /\ PlArtistPass(PlS.minConf, "artist", "widen")
  /\ UNCHANGED <<plRange, plPlace, plPool, plIdx>>
  /\ PlOnly

\* 4) wider saved
PlSavedWide ==
  /\ plOutcome = "pending" /\ plPc = "saved_wide"
  /\ PlSavedPass(PlS.minConfWide, "saved_wide", "artist_wide")
  /\ UNCHANGED <<plRange, plPlace, plPool, plIdx>>
  /\ PlOnly

\* 4) wider artists
PlArtistWide ==
  /\ plOutcome = "pending" /\ plPc = "artist_wide"
  /\ PlArtistPass(PlS.minConfWide, "artist_wide", "wide")
  /\ UNCHANGED <<plRange, plPlace, plPool, plIdx>>
  /\ PlOnly

\* the while loop of the wide pool followed by the wide stage once more
PlWideLoopAgain(pool, idx, picked) ==
  /\ plBackfilledBy' = picked.by
  /\ IF missing(picked.result) # <<>> /\ idx < Min(PlS.maxTotalEnrich, pool.len)
     THEN /\ plPc' = "wide_more"
          /\ plResult' = picked.result
          /\ plPool' = pool
          /\ plIdx' = idx
          /\ UNCHANGED <<plTodo, plOutcome, plEnforced>>
     ELSE IF plPc = "wide_more"
     THEN /\ plPc' = "wide"
          /\ plResult' = picked.result
          /\ plPool' = emptyPool
          /\ plIdx' = 0
          /\ UNCHANGED <<plTodo, plOutcome, plEnforced>>
     ELSE /\ PlGoto("last", picked.result, 0)
          /\ plPool' = emptyPool
          /\ plIdx' = 0

\* after a for loop over the wide pool: while (missing().length && idx < MAX_TOTAL)
PlWideLoop(pool, idx, picked) ==
  /\ plBackfilledBy' = picked.by
  /\ IF missing(picked.result) # <<>> /\ idx < Min(PlS.maxTotalEnrich, pool.len)
     THEN /\ plPc' = "wide_more"
          /\ plResult' = picked.result
          /\ plPool' = pool
          /\ plIdx' = idx
          /\ UNCHANGED <<plTodo, plOutcome, plEnforced>>
     ELSE /\ PlGoto("last", picked.result, 0)
          /\ plPool' = emptyPool
          /\ plIdx' = 0

\* 4) wide top-tracks pool: the pool is gathered, its first FIRST albums are
\* enriched, every missing colour is tried at minConfWide
PlWide ==
  /\ plOutcome = "pending" /\ plPc = "wide"
  /\ \E failed \in FailSets(SampledIn(WidePool(plPlace), 0, PlS.firstEnrich)) :
       \E widePool \in {WidePool(plPlace)} :
         LET FIRST == Min(PlS.firstEnrich, widePool.len)
         IN  \E pool \in {EnrichSlice(widePool, FIRST, failed)} :
             \E picked \in {PoolPicks(pool, plResult, plBackfilledBy, missing(plResult),
                                       1, PlS.minConfWide, "wide_top_tracks")} :
               /\ plFailures' = plFailures + Cardinality(failed)
               /\ PlWideLoop(pool, FIRST, picked)
  /\ UNCHANGED <<plRange, plPlace>>
  /\ PlOnly

\* fetchTopTracks of a gatherTopTrackCandidates of the wide pool rejects:
\* nothing catches it, the run rejects
PlWideThrow ==
  /\ plOutcome = "pending" /\ plPc = "wide"
  /\ plFailures < MaxFailures
  /\ plFailures' = plFailures + 1
  /\ plOutcome' = "rejected"
  /\ UNCHANGED <<plPc, plRange, plPlace, plTodo, plResult, plBackfilledBy,
                 plPool, plIdx, plEnforced>>
  /\ PlOnly

\* one turn of the while loop: the next batch is enriched, every missing
\* colour is tried at confidence 0.0
PlWideMore ==
  /\ plOutcome = "pending" /\ plPc = "wide_more"
  /\ \E failed \in FailSets(SampledIn(plPool, plIdx, plIdx + PlS.enrichBatch)) :
       \E pool \in {enrichMoreIfNeeded(plPool, plIdx, PlS.enrichBatch, failed)} :
       \E picked \in {PoolPicks(pool, plResult, plBackfilledBy, missing(plResult), 1,
                                 0, "ultra_loose")} :
         /\ plFailures' = plFailures + Cardinality(failed)
         /\ PlWideLoop(pool, plIdx + PlS.enrichBatch, picked)
  /\ UNCHANGED <<plRange, plPlace>>
  /\ PlOnly

\* 5) last resort: the other windows' pool is gathered, its first 420 albums
\* are enriched, every missing colour is tried at confidence 0.0; the run
\* then ends
PlLast ==
  /\ plOutcome = "pending" /\ plPc = "last"
  /\ \E failed \in FailSets(SampledIn(LastPool(plPlace, plRange), 0, 420)) :
       \E pool \in {EnrichSlice(LastPool(plPlace, plRange), 420, failed)} :
       \E picked \in {PoolPicks(pool, plResult, plBackfilledBy, missing(plResult), 1,
                                 0, "other_ranges_last")} :
           /\ plFailures' = plFailures + Cardinality(failed)
           /\ plBackfilledBy' = picked.by
           /\ plPc' = "done"
           /\ plTodo' = <<>>
           /\ plResult' = enforceUniqueTops(picked.result)
           /\ plOutcome' = "resolved"
           /\ plEnforced' = plEnforced + 1
  /\ UNCHANGED <<plRange, plPlace, plPool, plIdx>>
  /\ PlOnly

\* fetchTopTracks of a gatherTopTrackCandidates of the last resort rejects:
\* nothing catches it, the run rejects
PlLastThrow ==
  /\ plOutcome = "pending" /\ plPc = "last"
  /\ plFailures < MaxFailures
  /\ plFailures' = plFailures + 1
  /\ plOutcome' = "rejected"
  /\ UNCHANGED <<plPc, plRange, plPlace, plTodo, plResult, plBackfilledBy,
                 plPool, plIdx, plEnforced>>
  /\ PlOnly

PlNext ==
  \/ PlSelect
  \/ PlSelectThrow
  \/ PlSaved
  \/ PlArtist
  \/ PlSavedWide
  \/ PlArtistWide
  \/ PlWide
  \/ PlWideThrow
  \/ PlWideMore
  \/ PlLast
  \/ PlLastThrow

----------------------------------------------------------------------------
\* hexToSimpleBucket called on a colour, and called on it again

\* the channel values the colours are drawn from: the ends, the two sides of
\* v = 0.14 (35.7) and of v = 0.9 (229.5), and values in between
ClChannels == {0, 35, 36, 128, 200, 229, 230, 255}

\* colours whose s or h is on a threshold: s = 0.18, s = 0.1, h = 15, 75,
\* 160, 330, 250, 290
ClOnThreshold ==
  {rgbToHex(41, 41, 50), rgbToHex(250, 225, 250), rgbToHex(37, 16, 9),
   rgbToHex(33, 36, 24), rgbToHex(30, 90, 70), rgbToHex(250, 10, 130),
   rgbToHex(50, 10, 250), rgbToHex(210, 10, 250)}

\* colours whose hue is the centre of a bucket (0, 30, 60, 120, 210, 270,
\* 315) or the middle of its arc (352.5, 117.5, 205, 310), at s = 0.45 and
\* v = 0.63, at s = 1 and v = 0.94, and at s = 0.22 and v = 0.141
ClCentres ==
  {rgbToHex(c[1], c[2], c[3]) : c \in
     {<<160, 88, 88>>, <<160, 124, 88>>, <<160, 160, 88>>, <<88, 160, 88>>,
      <<88, 124, 160>>, <<124, 88, 160>>, <<160, 88, 142>>,
      <<160, 88, 97>>, <<91, 160, 88>>, <<88, 130, 160>>, <<160, 88, 148>>,
      <<240, 0, 0>>, <<240, 120, 0>>, <<240, 240, 0>>, <<0, 240, 0>>,
      <<0, 120, 240>>, <<120, 0, 240>>, <<240, 0, 180>>,
      <<240, 0, 30>>, <<10, 240, 0>>, <<0, 140, 240>>, <<240, 0, 200>>,
      <<36, 28, 28>>, <<36, 32, 28>>, <<36, 36, 28>>, <<28, 36, 28>>,
      <<28, 32, 36>>, <<32, 28, 36>>, <<36, 28, 34>>}}

ClInit ==
  /\ clPc = "ready"
  /\ clHex \in {rgbToHex(r, g, b) : r \in ClChannels, g \in ClChannels, b \in ClChannels}
                 \cup ClOnThreshold \cup ClCentres
  /\ clLow \in [s : BOOLEAN, h : BOOLEAN]
  /\ clFirst = "none"
  /\ clBucket = "none"

ClOff ==
  /\ clPc = "off"
  /\ clHex = NoHex
  /\ clLow = [s |-> FALSE, h |-> FALSE]
  /\ clFirst = "none"
  /\ clBucket = "none"

\* one call of hexToSimpleBucket(clHex)
ClClassify ==
  /\ clPc \in {"ready", "once"}
  /\ \E label \in {hexToSimpleBucketAt(clHex, clLow.s, clLow.h)} :
       /\ clBucket' = label
       /\ clFirst' = IF clPc = "ready" THEN label ELSE clFirst
  /\ clPc' = IF clPc = "ready" THEN "once" ELSE "twice"
  /\ UNCHANGED <<clHex, clLow>>
  /\ ClOnly

ClNext == ClClassify

----------------------------------------------------------------------------
\* getDominantFromImage: the colour sampling of one image, its callers
\* enrichWithDominant and the samplings of the saved and the artist scans.
\*
\* confidence is a double in the source; here it is the exact fraction
\* [n, d] the formula gives.  The double differs from it by rounding only,
\* and it is clamped to [0, 1] like the fraction.

RECURSIVE GCD(_, _)
GCD(a, b) == IF b = 0 THEN a ELSE GCD(b, a % b)

Frac(n, d) == [n |-> n \div GCD(n, d), d |-> d \div GCD(n, d)]
FAdd(x, y) == Frac((x.n * y.d) + (y.n * x.d), x.d * y.d)
FMul(x, y) == Frac(x.n * y.n, x.d * y.d)
FLe(x, y) == x.n * y.d <= y.n * x.d
FMin(x, y) == IF FLe(x, y) THEN x ELSE y
FMax(x, y) == IF FLe(x, y) THEN y ELSE x
FZero == Frac(0, 1)
FOne == Frac(1, 1)

\* the 50 x 50 raster of sharp(buffer).resize(50, 50) holds NPixels pixels here
NPixels == 3

\* the pixels an image is made of: two saturated ones, one on each side of
\* the alpha test, a pale one, a grey one and a transparent one
DmPalette ==
  {[r |-> 200, g |-> 50, b |-> 50, a |-> 10],
   [r |-> 40, g |-> 80, b |-> 200, a |-> 9],
   [r |-> 250, g |-> 200, b |-> 200, a |-> 255],
   [r |-> 100, g |-> 100, b |-> 100, a |-> 255],
   [r |-> 0, g |-> 0, b |-> 0, a |-> 0]}

\* What an image reference leads to: no reference at all (album.images is
\* empty), a fetch that throws, a response that is not ok, bytes sharp
\* rejects, or a raster.  sharp's output is sRGB: three colour channels, and
\* a fourth when the image has an alpha channel.
DmImages ==
  {[kind |-> k, channels |-> 3, pix |-> <<>>] :
     k \in {"none", "unreachable", "notok", "undecodable"}}
  \cup {[kind |-> "raster", channels |-> ch, pix |-> p] :
          ch \in {3, 4}, p \in [1..NPixels -> DmPalette]}

\* { hex: null, confidence: 0 }
DmFail == [hex |-> NoHex, confidence |-> FZero]

\* what a formula holding NaN leaves: rgbToHex(NaN, NaN, NaN) is a string,
\* Math.max(0, Math.min(1, NaN)) is NaN
DmNaN == [hex |-> rgbToHex(255, 255, 255) + 1, confidence |-> [n |-> 1, d |-> 0]]

\* the pixels the loop does not skip: a = channels === 4 ? data[i + 3] : 255;
\* if (a < 10) continue
UsedPixels(image) ==
  SelectSeq(image.pix, LAMBDA px : (IF image.channels = 4 THEN px.a ELSE 255) >= 10)

\* Math.round(sum / usedPixels) of one channel
RECURSIVE ChannelSum(_, _)
ChannelSum(pixels, ch) ==
  IF pixels = <<>> THEN 0 ELSE Head(pixels)[ch] + ChannelSum(Tail(pixels), ch)

RoundedMean(pixels, ch) ==
  ((2 * ChannelSum(pixels, ch)) + Len(pixels)) \div (2 * Len(pixels))

\* sSum: s = max === 0 ? 0 : d / max of every used pixel
RECURSIVE SatSum(_)
SatSum(pixels) ==
  IF pixels = <<>> THEN FZero
  ELSE LET hsv == rgbToHsv(Head(pixels).r, Head(pixels).g, Head(pixels).b)
       IN  FAdd(IF hsv.mx = 0 THEN FZero ELSE Frac(hsv.d, hsv.mx),
                SatSum(Tail(pixels)))

\* the sampling without the test on usedPixels === 0
SampledNoZeroTest(image) ==
  LET used == UsedPixels(image)
      totalPixels == Len(image.pix)
      coverage == Frac(Len(used), Max(1, totalPixels))
      avgSat == FMul(SatSum(used), Frac(1, Len(used)))
      satScore == FMin(FOne, FMul(avgSat, Frac(4, 1)))
  IN  IF used = <<>> THEN DmNaN
      ELSE [hex |-> rgbToHex(RoundedMean(used, "r"), RoundedMean(used, "g"),
                             RoundedMean(used, "b")),
            confidence |->
              FMax(FZero, FMin(FOne, FAdd(FMul(Frac(3, 5), coverage),
                                          FMul(Frac(2, 5), satScore))))]

\* getDominantFromImage from the decoded raster on: what it caches and
\* returns
Sampled(image) ==
  LET used == UsedPixels(image)
      totalPixels == Len(image.pix)
      coverage == Frac(Len(used), Max(1, totalPixels))
      avgSat == FMul(SatSum(used), Frac(1, Len(used)))
      satScore == FMin(FOne, FMul(avgSat, Frac(4, 1)))
  IN  IF used = <<>> THEN DmFail
      ELSE [hex |-> rgbToHex(RoundedMean(used, "r"), RoundedMean(used, "g"),
                             RoundedMean(used, "b")),
            confidence |->
              FMax(FZero, FMin(FOne, FAdd(FMul(Frac(3, 5), coverage),
                                          FMul(Frac(2, 5), satScore))))]

NDmCallers == 2

DmCallers == 1..NDmCallers

\* a caller that has not called yet
DmIdle ==
  [pc |-> "idle", kind |-> "none", minConf |-> 0, target |-> "none",
   thrown |-> FALSE, val |-> DmFail, set |-> FALSE, out |-> DmFail]

DmInit ==
  /\ dmImage \in DmImages
  /\ dmCache = <<>>
  /\ dmCallers = [c \in DmCallers |-> DmIdle]

DmOff ==
  /\ dmImage = [kind |-> "none", channels |-> 3, pix |-> <<>>]
  /\ dmCache = <<>>
  /\ dmCallers = [c \in DmCallers |-> [DmIdle EXCEPT !.pc = "off"]]

\* dominantCacheGet(url): DOMINANT_CACHE.get(key) || null, <<>> for null
dominantCacheGet(cache) == cache

\* dominantCacheSet(url, value); one entry never exceeds DOMINANT_CACHE_MAX
dominantCacheSet(cache, value) == <<value>>

\* A caller starts: the body of enrichWithDominant's callback for an album a
\* ("enrich"), or the sampling of an album by the saved or the artist scan
\* for a target colour ("scan"), up to the first await inside
\* getDominantFromImage.
DmCall(c) ==
  /\ dmCallers[c].pc = "idle"
  /\ \E kind \in {"enrich", "scan"}, wide \in BOOLEAN, target \in {"red", "grey"} :
       LET me == [dmCallers[c] EXCEPT
                    !.kind = kind,
                    !.minConf = IF kind = "enrich" THEN 0
                                ELSE IF wide
                                THEN strictnessForRange("long_term").minConfWide
                                ELSE strictnessForRange("short_term").minConf,
                    !.target = IF kind = "enrich" THEN "none" ELSE target]
       IN  /\ kind = "enrich" => (~wide /\ target = "red")
           /\ dmCallers' = [dmCallers EXCEPT ![c] =
                IF dmImage.kind = "none"
                THEN \* if (!a.image) { a.hex = null; a.confidence = 0 }
                     \* if (!image) continue
                     [me EXCEPT !.pc = "done", !.set = (kind = "enrich"),
                                !.out = DmFail]
                ELSE IF dominantCacheGet(dmCache) # <<>>
                THEN [me EXCEPT !.pc = "resume", !.val = dominantCacheGet(dmCache)[1]]
                ELSE [me EXCEPT !.pc = "fetch"]]
  /\ UNCHANGED <<dmImage, dmCache>>
  /\ DmOnly

\* await fetch(url) settles: it throws, or the response is tested
DmFetched(c) ==
  /\ dmCallers[c].pc = "fetch"
  /\ IF dmImage.kind = "unreachable"
     THEN /\ dmCallers' = [dmCallers EXCEPT ![c].pc = "resume", ![c].thrown = TRUE]
          /\ UNCHANGED dmCache
     ELSE IF dmImage.kind = "notok"
     THEN /\ dmCache' = dominantCacheSet(dmCache, DmFail)
          /\ dmCallers' = [dmCallers EXCEPT ![c].pc = "resume", ![c].val = DmFail]
     ELSE /\ dmCallers' = [dmCallers EXCEPT ![c].pc = "decode"]
          /\ UNCHANGED dmCache
  /\ UNCHANGED dmImage
  /\ DmOnly

\* await sharp(buffer)...toBuffer() settles: it throws, or the pixels are
\* summed and the outcome cached
DmDecoded(c) ==
  /\ dmCallers[c].pc = "decode"
  /\ IF dmImage.kind = "undecodable"
     THEN /\ dmCallers' = [dmCallers EXCEPT ![c].pc = "resume", ![c].thrown = TRUE]
          /\ UNCHANGED dmCache
     ELSE \E out \in {Sampled(dmImage)} :
            /\ dmCache' = dominantCacheSet(dmCache, out)
            /\ dmCallers' = [dmCallers EXCEPT ![c].pc = "resume", ![c].val = out]
  /\ UNCHANGED dmImage
  /\ DmOnly

\* what the scans do with a sampling: if (!hex || confidence < MIN_CONF)
\* continue; if (hexToSimpleBucket(hex) !== targetColor) continue
ScanKeeps(v, minConf, target) ==
  /\ v.hex # NoHex
  /\ ~(v.confidence.n * 100 < minConf * v.confidence.d)
  /\ hexToSimpleBucket(v.hex) = target

\* the caller goes on after `await getDominantFromImage(..)`: the catch of
\* enrichWithDominant and the .catch of the scans put { null, 0 } in place of
\* a rejection
DmResume(c) ==
  /\ dmCallers[c].pc = "resume"
  /\ \E v \in {IF dmCallers[c].thrown THEN DmFail ELSE dmCallers[c].val} :
       dmCallers' = [dmCallers EXCEPT
         ![c].pc = "done",
         ![c].set = IF dmCallers[c].kind = "enrich" THEN TRUE
                    ELSE ScanKeeps(v, dmCallers[c].minConf, dmCallers[c].target),
         ![c].out = IF dmCallers[c].kind = "enrich" THEN v
                    ELSE IF ScanKeeps(v, dmCallers[c].minConf, dmCallers[c].target)
                         THEN v ELSE DmFail]
  /\ UNCHANGED <<dmImage, dmCache>>
  /\ DmOnly

DmNext ==
  \E c \in DmCallers :
    \/ DmCall(c)
    \/ DmFetched(c)
    \/ DmDecoded(c)
    \/ DmResume(c)

----------------------------------------------------------------------------
\* The three sources of candidates on one list of albums: the Aggregator
\* gatherTopTrackCandidates over the albums of the top tracks, and the saved
\* and the artist scan over the same albums as page items.

\* the length of the upstream list
NItems == 3

\* The albums the upstream list is made of, with the merge key of
\* gatherTopTrackCandidates (normalized name :: primary artist) and what
\* getDominantFromImage gives for the image.  Albums 1 and 2 are two editions
\* with one merge key, 3 is a single, 4 reports no track at all, 5 no track
\* count, 7 has no image, the image of 8 cannot be sampled, 9 has no id.
CdAlbums ==
  {[key |-> 1, item |-> AlbumItem(1, 1, 12, [hex |-> rgbToHex(200, 30, 30), confidence |-> 30])],
   [key |-> 1, item |-> AlbumItem(2, 2, 14, [hex |-> rgbToHex(200, 30, 30), confidence |-> 50])],
   [key |-> 3, item |-> AlbumItem(3, 3, 1, [hex |-> rgbToHex(200, 30, 30), confidence |-> 60])],
   [key |-> 4, item |-> AlbumItem(4, 4, 0, [hex |-> rgbToHex(200, 30, 30), confidence |-> 55])],
   [key |-> 5, item |-> AlbumItem(5, 5, NoTracks, [hex |-> rgbToHex(200, 30, 30), confidence |-> 12])],
   [key |-> 6, item |-> AlbumItem(6, 6, 2, [hex |-> rgbToHex(230, 120, 30), confidence |-> 50])],
   [key |-> 7, item |-> AlbumItem(7, 0, 2, NoSample)],
   [key |-> 8, item |-> AlbumItem(8, 8, 2, NoSample)],
   [key |-> 9, item |-> AlbumItem(0, 9, 2, [hex |-> rgbToHex(200, 30, 30), confidence |-> 70])]}

\* rankWeight(index, total), in units of 1 / RankUnit(total)
RankUnit(total) == IF total <= 1 THEN 1 ELSE (total - 1) * (total - 1)

rankWeight(index, total) ==
  IF total <= 1 THEN 0 ELSE (total - 1 - index) * (total - 1 - index)

\* albumMap after the tracks from index on (from 0, the globalIndex) are
\* folded in: the entries in insertion order, each with its key.  score is
\* kept in units of 1 / (100 RankUnit(totalApprox)).
RECURSIVE GatherFrom(_, _, _, _, _, _)
GatherFrom(tracks, index, last, totalApprox, timeWeight, albumMap) ==
  IF index > last THEN albumMap
  ELSE
    LET album == tracks[index + 1].item
        key == tracks[index + 1].key
        score == rankWeight(index, totalApprox) * timeWeight
        known == \E k \in 1..Len(albumMap) : albumMap[k].key = key
        opened == IF known THEN albumMap
                  ELSE Append(albumMap,
                              [key |-> key,
                               a |-> TrackCandidate(album.id, album.img,
                                                    album.total_tracks, 0, 0)])
        added == [k \in 1..Len(opened) |->
                    IF opened[k].key = key
                    THEN [opened[k] EXCEPT !.a.score = @ + score,
                                           !.a.appearances = @ + 1,
                                           !.a.count = @ + 1]
                    ELSE opened[k]]
    IN  IF album.id = 0 \/ isOneTrackAlbum(album)
        THEN GatherFrom(tracks, index + 1, last, totalApprox, timeWeight, albumMap)
        ELSE GatherFrom(tracks, index + 1, last, totalApprox, timeWeight, added)

\* a gathering that passes over the first track
gatherTopTrackCandidatesFromSecond(tracks, pages, pageSize, maxUnique, timeWeight) ==
  LET albumMap == GatherFrom(tracks, 1, Min(Len(tracks), pages * pageSize) - 1,
                             Max(1, pages * pageSize), timeWeight, <<>>)
  IN  Slice(SortByScore([k \in 1..Len(albumMap) |-> albumMap[k].a]), maxUnique)

\* gatherTopTrackCandidates: the pages are read until one is short of
\* pageSize or `pages` are read, which leaves the first pages * pageSize
\* tracks of the upstream list
gatherTopTrackCandidates(tracks, pages, pageSize, maxUnique, timeWeight) ==
  LET albumMap == GatherFrom(tracks, 0, Min(Len(tracks), pages * pageSize) - 1,
                             Max(1, pages * pageSize), timeWeight, <<>>)
  IN  Slice(SortByScore([k \in 1..Len(albumMap) |-> albumMap[k].a]), maxUnique)

CdInit ==
  /\ cdItems \in [1..NItems -> CdAlbums]
  /\ cdPc = "ready"
  /\ cdCall = [op |-> "none", targetColor |-> "none", minConf |-> 0, usedIds |-> {}]
  /\ cdOut = <<>>

CdOff ==
  /\ cdItems = <<>>
  /\ cdPc = "off"
  /\ cdCall = [op |-> "none", targetColor |-> "none", minConf |-> 0, usedIds |-> {}]
  /\ cdOut = <<>>

\* gatherTopTrackCandidates(accessToken, timeRange, opts) on the list
CdGather ==
  /\ cdPc = "ready"
  /\ \E pages \in {1, 2}, maxUnique \in {2, 260}, timeWeight \in {100, 55} :
       /\ cdOut' = gatherTopTrackCandidates(cdItems, pages, 2, maxUnique, timeWeight)
       /\ cdCall' = [op |-> "gather", pages |-> pages, pageSize |-> 2,
                     maxUnique |-> maxUnique, timeWeight |-> timeWeight]
  /\ cdPc' = "done"
  /\ UNCHANGED cdItems
  /\ CdOnly

\* the options a scan is called with
CdScanCalls(op) ==
  [op : {op}, targetColor : {"red", "orange"},
   minConf : {strictnessForRange("short_term").minConf,
              strictnessForRange("long_term").minConfWide},
   usedIds : {{}, {2}, {3}}]

\* findSavedAlbumBackfillForColor on the list as the saved albums
CdSaved ==
  /\ cdPc = "ready"
  /\ \E call \in CdScanCalls("saved") :
       /\ cdCall' = call
       /\ cdOut' = <<findSavedAlbumBackfillForColor(
                       [i \in 1..Len(cdItems) |-> cdItems[i].item],
                       call.targetColor, call.usedIds, call.minConf)>>
  /\ cdPc' = "done"
  /\ UNCHANGED cdItems
  /\ CdOnly

\* findArtistBackfillForColor on the list as the albums of the top artists
CdArtist ==
  /\ cdPc = "ready"
  /\ \E call \in CdScanCalls("artist") :
       /\ cdCall' = call
       /\ \E best \in findArtistBackfillForColor(
                        [i \in 1..Len(cdItems) |-> cdItems[i].item],
                        call.targetColor, call.usedIds, call.minConf) :
            cdOut' = <<best>>
  /\ cdPc' = "done"
  /\ UNCHANGED cdItems
  /\ CdOnly

CdNext ==
  \/ CdGather
  \/ CdSaved
  \/ CdArtist

----------------------------------------------------------------------------
\* enforceUniqueTops on a result

\* the buckets of COLOR_ORDER that are filled: the first NFilled
NFilled == 3

\* the tops the buckets are filled with: two album ids, two scores, two
\* confidences
UnTops ==
  {[TrackCandidate(id, id, 10, score, 1) EXCEPT
      !.hex = rgbToHex(200, 30, 30), !.confidence = confidence] :
     id \in {1, 2}, score \in {100, 200}, confidence \in {20, 30}}

\* an album of a bucket's `others`
UnOther == [TrackCandidate(9, 9, 10, 50, 1) EXCEPT !.hex = rgbToHex(200, 30, 30)]

UnInit ==
  /\ unPc = "ready"
  /\ \E tops \in [1..NFilled -> UnTops \cup {null}] :
       unResult = [c \in Colors |->
                     IF \E i \in 1..NFilled : COLOR_ORDER[i] = c /\ tops[i] # null
                     THEN [top |-> tops[CHOOSE i \in 1..NFilled : COLOR_ORDER[i] = c],
                           others |-> <<UnOther>>]
                     ELSE emptyBucket]
  /\ unOut = buildEmptyResult

UnOff ==
  /\ unPc = "off"
  /\ unResult = buildEmptyResult
  /\ unOut = buildEmptyResult

\* enforceUniqueTops(result)
UnEnforce ==
  /\ unPc = "ready"
  /\ unOut' = enforceUniqueTops(unResult)
  /\ unPc' = "done"
  /\ UNCHANGED unResult
  /\ UnOnly

UnNext == UnEnforce

----------------------------------------------------------------------------
\* The two TTL caches side by side: SPOTIFY_CACHE read by spotifyCacheGet and
\* COMPUTE_CACHE read by computeCacheGet, under one clock.  A write is
\* spotifyCacheSet / computeCacheSet at the current time; a read records the
\* entry it found, what it returned and what it left in the map.

MaxTtTicks == 6

\* the clock advances in steps that divide both TTLs, so that an entry is
\* read at ages below, equal to and above each of them
TtTickMs == COMPUTE_TTL \div 3

\* the one key both maps are used with
TtKey == "key"

\* the values a write stores: a parsed body, a body that did not parse
TtLookupValues == {Json(TtKey), null}

TtNoRead == [cache |-> "none"]

TtInit ==
  /\ ttNow = 0
  /\ ttSpotify = [k \in {TtKey} |-> absent]
  /\ ttCompute = [k \in {TtKey} |-> absent]
  /\ ttRead = TtNoRead

TtOff ==
  /\ ttNow = 0
  /\ ttSpotify = <<>>
  /\ ttCompute = <<>>
  /\ ttRead = <<>>

\* Date.now() moves on
TtTick ==
  /\ ttNow < MaxTtTicks * TtTickMs
  /\ ttNow' = ttNow + TtTickMs
  /\ UNCHANGED <<ttSpotify, ttCompute, ttRead>>
  /\ TtOnly

\* spotifyCacheSet(key, json)
TtLookupSet(v) ==
  /\ ttSpotify' = spotifyCacheSet(ttSpotify, TtKey, v, ttNow)
  /\ UNCHANGED <<ttNow, ttCompute, ttRead>>
  /\ TtOnly

\* computeCacheSet(cKey, out)
TtComputedSet ==
  /\ ttCompute' = computeCacheSet(ttCompute, TtKey, CoResult(TtKey), ttNow)
  /\ UNCHANGED <<ttNow, ttSpotify, ttRead>>
  /\ TtOnly

\* spotifyCacheGet(key)
TtLookupGet ==
  /\ ttSpotify' = SpotifyCacheAfterGet(ttSpotify, TtKey, ttNow)
  /\ ttRead' = [cache |-> "lookup", hit |-> ttSpotify[TtKey], now |-> ttNow,
                got |-> spotifyCacheGet(ttSpotify, TtKey, ttNow),
                left |-> ttSpotify'[TtKey]]
  /\ UNCHANGED <<ttNow, ttCompute>>
  /\ TtOnly

\* computeCacheGet(cKey)
TtComputedGet ==
  /\ ttCompute' = ComputeCacheAfterGet(ttCompute, TtKey, ttNow)
  /\ ttRead' = [cache |-> "computed", hit |-> ttCompute[TtKey], now |-> ttNow,
                got |-> computeCacheGet(ttCompute, TtKey, ttNow),
                left |-> ttCompute'[TtKey]]
  /\ UNCHANGED <<ttNow, ttSpotify>>
  /\ TtOnly

TtNext ==
  \/ TtTick
  \/ \E v \in TtLookupValues : TtLookupSet(v)
  \/ TtComputedSet
  \/ TtLookupGet
  \/ TtComputedGet

----------------------------------------------------------------------------
\* rankWeight over the positions of a window of `total` tracks

MaxTotal == 6

RwInit ==
  /\ rwTotal \in 1..MaxTotal
  /\ rwOut = [index \in 0..(rwTotal - 1) |-> <<>>]

RwOff ==
  /\ rwTotal = 0
  /\ rwOut = <<>>

\* rankWeight(index, total) is called for a position of the window
RwCall(index) ==
  /\ rwOut[index] = <<>>
  /\ rwOut' = [rwOut EXCEPT ![index] = <<rankWeight(index, rwTotal)>>]
  /\ UNCHANGED rwTotal
  /\ RwOnly

RwNext == \E index \in DOMAIN rwOut : RwCall(index)

----------------------------------------------------------------------------
\* The capacity of the three caches.  A JavaScript Map keeps its keys in the
\* order of their insertion: here a Map is the sequence of its entries
\* [k, v] in that order.  The capacities of the code are 2500 (lookups), 120
\* (computed results) and 1200 (colours); they are cut to MaxCapacity, and
\* one key more than that is in use.

MaxCapacity == 3
MaxSets == 6

SPOTIFY_CACHE_MAX == 2500
COMPUTE_CACHE_MAX == 120
DOMINANT_CACHE_MAX == 1200

CapKeys == 1..(MaxCapacity + 1)

\* Map.prototype.has
MapHas(map, key) == \E i \in 1..Len(map) : map[i].k = key

\* Map.prototype.set: a present key keeps its place, a new one goes last
MapSet(map, key, value) ==
  IF MapHas(map, key)
  THEN [i \in 1..Len(map) |-> IF map[i].k = key THEN [k |-> key, v |-> value] ELSE map[i]]
  ELSE Append(map, [k |-> key, v |-> value])

\* map.delete(map.keys().next().value)
MapDeleteFirst(map) == Tail(map)

\* spotifyCacheSet evicting the newest entry
SpotifyCacheInsertEvictLast(map, key, value, now, max) ==
  LET set == MapSet(map, key, [v |-> value, t |-> now])
  IN  IF Len(set) > max THEN SubSeq(set, 1, Len(set) - 1) ELSE set

\* spotifyCacheSet(key, value) with the size test against max
SpotifyCacheInsert(map, key, value, now, max) ==
  LET set == MapSet(map, key, [v |-> value, t |-> now])
  IN  IF Len(set) > max THEN MapDeleteFirst(set) ELSE set

\* computeCacheSet(key, value) with the size test against max
ComputeCacheInsert(map, key, value, now, max) ==
  LET set == MapSet(map, key, [v |-> value, t |-> now])
  IN  IF Len(set) > max THEN MapDeleteFirst(set) ELSE set

\* dominantCacheSet(key, value) with the size test against max
DominantCacheInsert(map, key, value, max) ==
  LET set == MapSet(map, key, value)
  IN  IF Len(set) > max THEN MapDeleteFirst(set) ELSE set

\* the capacity a cache is checked at
CapMax(which) ==
  Min(MaxCapacity,
      CASE which = "lookup" -> SPOTIFY_CACHE_MAX
        [] which = "computed" -> COMPUTE_CACHE_MAX
        [] which = "color" -> DOMINANT_CACHE_MAX)

CapInit ==
  /\ capWhich \in {"lookup", "computed", "color"}
  /\ capMap = <<>>
  /\ capSince = [k \in CapKeys |-> 0]
  /\ capSets = 0
  /\ capKey = 0

CapOff ==
  /\ capWhich = "off"
  /\ capMap = <<>>
  /\ capSince = <<>>
  /\ capSets = 0
  /\ capKey = 0

\* one call of the cache's set function; capSince notes for a key that was
\* not in the map the number of this call
CapSet(key) ==
  /\ capSets < MaxSets
  /\ capSets' = capSets + 1
  /\ capKey' = key
  /\ capMap' =
       IF capWhich = "lookup"
       THEN SpotifyCacheInsert(capMap, key, Json(key), capSets', CapMax(capWhich))
       ELSE IF capWhich = "computed"
       THEN ComputeCacheInsert(capMap, key, CoResult(key), capSets', CapMax(capWhich))
       ELSE DominantCacheInsert(capMap, key, NoSample, CapMax(capWhich))
  /\ capSince' = [k \in CapKeys |->
                    IF ~MapHas(capMap', k) THEN 0
                    ELSE IF k = key /\ ~MapHas(capMap, k) THEN capSets'
                    ELSE capSince[k]]
  /\ UNCHANGED capWhich
  /\ CapOnly

CapNext == \E key \in CapKeys : CapSet(key)

----------------------------------------------------------------------------
\* /api/results_bundle: the three windows' runs of one listener, started
\* together, and the lookups of top tracks they share through SPOTIFY_CACHE
\* and SPOTIFY_INFLIGHT: each run asks for its own window's first page, then
\* (for the wide pool and the last resort) for the other windows' in the
\* order of allRanges.  A token is the sequence of its characters.

TOKEN_KEY_LENGTH == 12

\* tokenKey(accessToken): accessToken.slice(-12), or "no_token"
tokenKey(accessToken) ==
  IF accessToken = <<>> THEN <<"no_token">>
  ELSE SubSeq(accessToken, Max(1, Len(accessToken) - TOKEN_KEY_LENGTH + 1),
              Len(accessToken))

\* the lookup key of fetchTopTracks without the window
topTracksKeyNoRange(accessToken, time_range, limit, offset) ==
  <<tokenKey(accessToken), "top_tracks", "", limit, offset>>

\* k of spotifyFetchJson for fetchTopTracks:
\* `${tokenKey(accessToken)}:top_tracks:${time_range}:${limit}:${offset}`
topTracksKey(accessToken, time_range, limit, offset) ==
  <<tokenKey(accessToken), "top_tracks", time_range, limit, offset>>

\* cKey of computeResultsForRange:
\* `${tokenKey(accessToken)}:range:${requestedRange}:limit:${limit}`
computeKey(accessToken, requestedRange, limit) ==
  <<tokenKey(accessToken), "range", requestedRange, "limit", limit>>

\* the listener's token, of 13 characters
BdToken == <<"t", "0", "1", "2", "3", "4", "5", "6", "7", "8", "9", "a", "b">>

\* what the upstream answers for a window's first page of top tracks
BdPages == {"a", "b", "error"}

BdKey(w) == topTracksKey(BdToken, w, 50, 0)

BdKeys == {BdKey(w) : w \in Ranges}

BdCKey(w) == computeKey(BdToken, w, 50)

BdCKeys == {BdCKey(w) : w \in Ranges}

\* the windows whose first page a run for window w asks for, in order
BdPlan(w) == <<w>> \o SelectSeq(AllRanges, LAMBDA r : r # w)

BdNoRun == [pc |-> "none", i |-> 1, got |-> <<>>]

\* the three calls of computeResultsForRange made by Promise.all, in order:
\* a call whose cKey is in COMPUTE_INFLIGHT gets that run's promise
RECURSIVE BdCalls(_, _, _)
BdCalls(i, computing, serves) ==
  IF i > Len(AllRanges) THEN [computing |-> computing, serves |-> serves]
  ELSE
    LET w == AllRanges[i]
        k == BdCKey(w)
    IN  IF computing[k] # "none"
        THEN BdCalls(i + 1, computing, [serves EXCEPT ![w] = computing[k]])
        ELSE BdCalls(i + 1, [computing EXCEPT ![k] = w], [serves EXCEPT ![w] = w])

BdInit ==
  /\ bdPc = "idle"
  /\ bdUp \in [Ranges -> BdPages]
  /\ bdCache = [k \in BdKeys |-> "none"]
  /\ bdInflight = [k \in BdKeys |-> "none"]
  /\ bdComputing = [k \in BdCKeys |-> "none"]
  /\ bdServes = [w \in Ranges |-> "none"]
  /\ bdRuns = [w \in Ranges |-> BdNoRun]

BdOff ==
  /\ bdPc = "off"
  /\ bdUp = <<>>
  /\ bdCache = <<>>
  /\ bdInflight = <<>>
  /\ bdComputing = <<>>
  /\ bdServes = <<>>
  /\ bdRuns = <<>>

\* the handler starts the three runs
BdStart ==
  /\ bdPc = "idle"
  /\ bdPc' = "started"
  /\ \E calls \in {BdCalls(1, bdComputing, bdServes)} :
       /\ bdComputing' = calls.computing
       /\ bdServes' = calls.serves
       /\ bdRuns' = [w \in Ranges |->
                       IF calls.serves[w] = w THEN [pc |-> "ask", i |-> 1, got |-> <<>>]
                       ELSE BdNoRun]
  /\ UNCHANGED <<bdUp, bdCache, bdInflight>>
  /\ BdOnly

\* a run that received page v for its lookup goes on, or is done
BdReceived(run, v) ==
  [pc |-> IF run.i = Len(AllRanges) THEN "done" ELSE "ask",
   i |-> run.i + 1, got |-> Append(run.got, v)]

\* the key a run asks for, or waits for
BdAsked(w) == BdKey(BdPlan(w)[bdRuns[w].i])

\* spotifyFetchJson called by the run for window w: a cached page is returned,
\* a lookup in flight is awaited, or a fetch of the URL is started
BdAsk(w) ==
  /\ bdRuns[w].pc = "ask"
  /\ LET k == BdAsked(w)
     IN  IF bdCache[k] # "none"
         THEN /\ bdRuns' = [bdRuns EXCEPT ![w] = BdReceived(@, bdCache[k])]
              /\ UNCHANGED bdInflight
         ELSE /\ bdRuns' = [bdRuns EXCEPT ![w].pc = "wait"]
              /\ bdInflight' =
                   IF bdInflight[k] # "none" THEN bdInflight
                   ELSE [bdInflight EXCEPT ![k] = BdPlan(w)[bdRuns[w].i]]
  /\ UNCHANGED <<bdPc, bdUp, bdCache, bdComputing, bdServes>>
  /\ BdOnly

\* the upstream answers the fetch in flight under key k: the page is cached
\* and every run awaiting the lookup receives it, or the lookup rejects and
\* so does every run awaiting it
BdRespond(k) ==
  /\ bdInflight[k] # "none"
  /\ LET v == bdUp[bdInflight[k]]
         waits(w) == bdRuns[w].pc = "wait" /\ BdAsked(w) = k
     IN  /\ bdCache' = IF v = "error" THEN bdCache ELSE [bdCache EXCEPT ![k] = v]
         /\ bdRuns' = [w \in Ranges |->
                         IF ~waits(w) THEN bdRuns[w]
                         ELSE IF v = "error" THEN [bdRuns[w] EXCEPT !.pc = "rejected"]
                         ELSE BdReceived(bdRuns[w], v)]
  /\ bdInflight' = [bdInflight EXCEPT ![k] = "none"]
  /\ UNCHANGED <<bdPc, bdUp, bdComputing, bdServes>>
  /\ BdOnly

BdNext ==
  \/ BdStart
  \/ \E w \in Ranges : BdAsk(w)
  \/ \E k \in BdKeys : BdRespond(k)

----------------------------------------------------------------------------
\* Requests of different access tokens and what the caches and the in-flight
\* maps hand them.  The access token is the cookie the request carries.

\* the tokens of the requests: two that end in the same 12 characters, one
\* that ends otherwise, one shorter than 12 characters
TkTokens ==
  {BdToken,
   <<"u", "0", "1", "2", "3", "4", "5", "6", "7", "8", "9", "a", "b">>,
   <<"t", "0", "1", "2", "3", "4", "5", "6", "7", "8", "9", "a", "c">>,
   <<"t", "0">>}

\* SPOTIFY_CACHE, SPOTIFY_INFLIGHT, COMPUTE_CACHE, COMPUTE_INFLIGHT
TkMaps == {"lookup_cache", "lookup_inflight", "result_cache", "result_inflight"}

\* the key under which a request of the token reads and writes the map
TkKey(map, accessToken) ==
  IF map \in {"lookup_cache", "lookup_inflight"}
  THEN topTracksKey(accessToken, "short_term", 50, 0)
  ELSE computeKey(accessToken, "short_term", 50)

TkNotServed == [map |-> "none", to |-> <<>>, madeFor |-> <<>>]

\* the entries of the map under the key of the token
TkFound(map, accessToken) ==
  {e \in tkEntries : e.map = map /\ e.key = TkKey(map, accessToken)}

TkInit ==
  /\ tkEntries = {}
  /\ tkServed = TkNotServed

TkOff ==
  /\ tkEntries = {}
  /\ tkServed = [map |-> "off", to |-> <<>>, madeFor |-> <<>>]

\* a request of the token finds neither a cached value nor one in flight
\* under its key and starts the lookup, or the run: the promise is put in
\* the in-flight map under the key
TkStart(map, accessToken) ==
  /\ map \in {"lookup_inflight", "result_inflight"}
  /\ TkFound(map, accessToken) = {}
  /\ TkFound(IF map = "lookup_inflight" THEN "lookup_cache" ELSE "result_cache",
             accessToken) = {}
  /\ tkEntries' = tkEntries \cup
                    {[map |-> map, key |-> TkKey(map, accessToken), madeFor |-> accessToken]}
  /\ UNCHANGED tkServed
  /\ TkOnly

\* the promise settles: its key leaves the in-flight map; a value is cached
\* under the same key when it resolved
TkSettle(e, ok) ==
  /\ e \in tkEntries
  /\ e.map \in {"lookup_inflight", "result_inflight"}
  /\ tkEntries' = (tkEntries \ {e}) \cup
       (IF ok
        THEN {[e EXCEPT !.map = IF e.map = "lookup_inflight" THEN "lookup_cache"
                                 ELSE "result_cache"]}
        ELSE {})
  /\ UNCHANGED tkServed
  /\ TkOnly

\* the entry's time to live is over and a read deletes it
TkExpire(e) ==
  /\ e \in tkEntries
  /\ e.map \in {"lookup_cache", "result_cache"}
  /\ tkEntries' = tkEntries \ {e}
  /\ UNCHANGED tkServed
  /\ TkOnly

\* a request of the token finds a value, or a promise, under its key and
\* returns it
TkServe(map, accessToken) ==
  /\ \E e \in TkFound(map, accessToken) :
       tkServed' = [map |-> map, to |-> accessToken, madeFor |-> e.madeFor]
  /\ UNCHANGED tkEntries
  /\ TkOnly

TkNext ==
  \/ \E map \in TkMaps, accessToken \in TkTokens : TkStart(map, accessToken)
  \/ \E e \in tkEntries, ok \in BOOLEAN : TkSettle(e, ok)
  \/ \E e \in tkEntries : TkExpire(e)
  \/ \E map \in TkMaps, accessToken \in TkTokens : TkServe(map, accessToken)

----------------------------------------------------------------------------
\* SpecArtistScan: one call of findArtistBackfillForColor from the point
\* where the candidates list is built: mapLimit(candidates, 6, fn) starts its
\* workers, the samplings of the images settle in any order, and the end of
\* each callback reads and writes the shared `best`.

\* mapLimit(candidates, 6, ...)
ARTIST_SCAN_LIMIT == 6

\* the length of the albums list of the top artists
NAbItems == 3

\* The albums of the top artists, with what getDominantFromImage gives for
\* the image: albums 1, 2 and 10 are red, 2 and 10 sampled at one
\* confidence (two editions with one cover), 6 is orange, the image of 8
\* cannot be sampled.
AbAlbums ==
  {AlbumItem(1, 1, 12, [hex |-> rgbToHex(200, 30, 30), confidence |-> 30]),
   AlbumItem(2, 2, 14, [hex |-> rgbToHex(200, 30, 30), confidence |-> 50]),
   AlbumItem(10, 10, 15, [hex |-> rgbToHex(200, 30, 30), confidence |-> 50]),
   AlbumItem(6, 6, 2, [hex |-> rgbToHex(230, 120, 30), confidence |-> 50]),
   AlbumItem(8, 8, 2, NoSample)}

\* the options the scan is called with
AbCalls ==
  [targetColor : {"red", "orange"},
   minConf : {strictnessForRange("short_term").minConf},
   usedIds : {{}, {1}}]

\* const candidates = [] ... candidates.push(...)
AbCandidates == ArtistCandidatesFrom(abItems, 1, {}, abCall.usedIds)

\* a worker that has left its loop
AbEnded == -1

AbInit ==
  /\ abItems \in [1..NAbItems -> AbAlbums]
  /\ abCall \in AbCalls
  /\ abPc = "ready"
  /\ abI = 0
  /\ abWorkers = <<>>
  /\ abBest = null

AbOff ==
  /\ abItems = <<>>
  /\ abCall = [targetColor |-> "none", minConf |-> 0, usedIds |-> {}]
  /\ abPc = "off"
  /\ abI = 0
  /\ abWorkers = <<>>
  /\ abBest = null

\* let best = null; await mapLimit(candidates, 6, ...): every worker takes
\* an index and calls getDominantFromImage for it; with no candidate the
\* scan returns null
AbCall ==
  /\ abPc = "ready"
  /\ LET W == WorkerCount(ARTIST_SCAN_LIMIT, Len(AbCandidates))
     IN  /\ abWorkers' = [w \in 1..W |-> w - 1]
         /\ abI' = W
         /\ abPc' = IF W = 0 THEN "done" ELSE "sampling"
  /\ UNCHANGED <<abItems, abCall, abBest>>
  /\ AbOnly

\* The sampling a worker awaits settles (a failed one as hex null) and the
\* rest of the callback runs: the floor, the bucket, then
\* `if (!best || enriched.confidence > best.confidence) best = enriched`.
\* The worker takes the next index or leaves its loop; when the last worker
\* has left, Promise.all resolves and the scan returns best.
AbSampled(w) ==
  /\ abPc = "sampling"
  /\ w \in DOMAIN abWorkers
  /\ abWorkers[w] # AbEnded
  /\ LET c == AbCandidates[abWorkers[w] + 1]
         take == /\ ScanAccepts(c, abCall.targetColor, abCall.minConf)
                 /\ (abBest = null \/ c.sample.confidence > abBest.confidence)
     IN  abBest' = IF take THEN BackfillCandidate(c, "artist") ELSE abBest
  /\ abWorkers' = [abWorkers EXCEPT ![w] = IF abI < Len(AbCandidates) THEN abI
                                           ELSE AbEnded]
  /\ abI' = abI + 1
  /\ abPc' = IF \A v \in DOMAIN abWorkers : abWorkers'[v] = AbEnded
             THEN "done" ELSE "sampling"
  /\ UNCHANGED <<abItems, abCall>>
  /\ AbOnly

AbNext ==
  \/ AbCall
  \/ \E w \in DOMAIN abWorkers : AbSampled(w)

----------------------------------------------------------------------------
\* SpecImageCache: calls of getDominantFromImage for several image URLs
\* against DOMINANT_CACHE.  Every fetch gets its own response, and the map
\* holds MaxImCached entries (1200 in the code), one URL more being in use.

MaxImCached == 1
NImCallers == 2

ImUrls == 1..(MaxImCached + 1)
ImCallers == 1..NImCallers

\* { hex, confidence } of the image behind a URL when it is fetched and
\* decoded with pixels in it
ImColor(url) == [hex |-> rgbToHex(200, 30, 30), confidence |-> 40 + url]

\* DOMINANT_CACHE.get(key) || null, <<>> for null: every cached value is an
\* object, { hex: null, confidence: 0 } too
DominantCacheLookup(map, key) ==
  IF MapHas(map, key)
  THEN <<map[CHOOSE i \in 1..Len(map) : map[i].k = key].v>>
  ELSE <<>>

ImMax == Min(MaxImCached, DOMINANT_CACHE_MAX)

\* a caller that is not inside a call
ImResting == {"idle", "returned", "threw"}

ImInit ==
  /\ imCache = <<>>
  /\ imCallers = [c \in ImCallers |->
                    [pc |-> "idle", url |-> 0, via |-> "none", out |-> NoSample]]

ImOff ==
  /\ imCache = <<>>
  /\ imCallers = <<>>

\* getDominantFromImage(url) up to its first await: a cached value is
\* returned, else fetch(url) is issued
ImCall(c, url) ==
  /\ imCallers[c].pc \in ImResting
  /\ \E cached \in {DominantCacheLookup(imCache, url)} :
       imCallers' = [imCallers EXCEPT ![c] =
         IF cached # <<>>
         THEN [pc |-> "returned", url |-> url, via |-> "cache", out |-> cached[1]]
         ELSE [pc |-> "fetch", url |-> url, via |-> "fetch", out |-> NoSample]]
  /\ UNCHANGED imCache
  /\ ImOnly

\* await fetch(url) settles: the fetch throws; or the response is not OK and
\* { hex: null, confidence: 0 } is cached and returned; or the body is read
\* and handed to sharp
ImFetched(c, response) ==
  /\ imCallers[c].pc = "fetch"
  /\ CASE response = "throws" ->
            /\ imCallers' = [imCallers EXCEPT ![c].pc = "threw"]
            /\ UNCHANGED imCache
       [] response = "notok" ->
            /\ imCache' = DominantCacheInsert(imCache, imCallers[c].url, NoSample, ImMax)
            /\ imCallers' = [imCallers EXCEPT ![c].pc = "returned", ![c].out = NoSample]
       [] response = "ok" ->
            /\ imCallers' = [imCallers EXCEPT ![c].pc = "decode"]
            /\ UNCHANGED imCache
  /\ ImOnly

\* await sharp(buffer)...toBuffer() settles: it throws; or no pixel is used
\* and { hex: null, confidence: 0 } is cached; or the colour is cached
ImDecoded(c, decoded) ==
  /\ imCallers[c].pc = "decode"
  /\ CASE decoded = "throws" ->
            /\ imCallers' = [imCallers EXCEPT ![c].pc = "threw"]
            /\ UNCHANGED imCache
       [] decoded \in {"empty", "color"} ->
            \E out \in {IF decoded = "empty" THEN NoSample
                        ELSE ImColor(imCallers[c].url)} :
              /\ imCache' = DominantCacheInsert(imCache, imCallers[c].url, out, ImMax)
              /\ imCallers' = [imCallers EXCEPT ![c].pc = "returned", ![c].out = out]
  /\ ImOnly

ImNext ==
  \/ \E c \in ImCallers, url \in ImUrls : ImCall(c, url)
  \/ \E c \in ImCallers, response \in {"throws", "notok", "ok"} : ImFetched(c, response)
  \/ \E c \in ImCallers, decoded \in {"throws", "empty", "color"} : ImDecoded(c, decoded)

----------------------------------------------------------------------------
\* SpecDebounce: the requests of one listener to /api/results_bundle and
\* BUNDLE_INFLIGHT, which holds for the listener's token key the promise p of
\* the latest bundle and the time t at which it was started.

\* now - existing.t < 15_000, and the delay of the timer of the finally
BUNDLE_DEBOUNCE_MS == 15000

MaxBundles == 3
MaxBnTicks == 4

\* the clock advances by a third of the debounce time
BnTickMs == BUNDLE_DEBOUNCE_MS \div 3

BnBundles == 1..MaxBundles

\* no request has been answered yet
BnNoRequest == [p |-> 0, how |-> "none", was |-> "none"]

BnInit ==
  /\ bnNow = 0
  /\ bnEntry = <<>>
  /\ bnPromises = [p \in BnBundles |-> "none"]
  /\ bnTimers = {}
  /\ bnServed = BnNoRequest

BnOff ==
  /\ bnNow = 0
  /\ bnEntry = <<>>
  /\ bnPromises = <<>>
  /\ bnTimers = {}
  /\ bnServed = BnNoRequest

\* Date.now() moves on; a timer that is due fires first
BnTick ==
  /\ bnNow < MaxBnTicks * BnTickMs
  /\ \A tm \in bnTimers : tm.due > bnNow
  /\ bnNow' = bnNow + BnTickMs
  /\ UNCHANGED <<bnEntry, bnPromises, bnTimers, bnServed>>
  /\ BnOnly

\* A request, up to its first await: with an entry younger than 15 s the
\* handler awaits existing.p; else it starts the three runs as a new p and
\* sets { p, t: now }.  bnServed notes the promise the request awaits and the
\* state that promise was in.
BnRequest ==
  /\ IF bnEntry # <<>> /\ bnNow - bnEntry[1].t < BUNDLE_DEBOUNCE_MS
     THEN /\ bnServed' = [p |-> bnEntry[1].p, how |-> "existing",
                          was |-> bnPromises[bnEntry[1].p]]
          /\ UNCHANGED <<bnEntry, bnPromises>>
     ELSE \E p \in BnBundles :
            /\ bnPromises[p] = "none"
            /\ \A q \in BnBundles : q < p => bnPromises[q] # "none"
            /\ bnPromises' = [bnPromises EXCEPT ![p] = "pending"]
            /\ bnEntry' = <<[p |-> p, t |-> bnNow]>>
            /\ bnServed' = [p |-> p, how |-> "started", was |-> "none"]
  /\ UNCHANGED <<bnNow, bnTimers>>
  /\ BnOnly

\* Promise.all of the three runs settles, with the bundle or with the error
\* of a run; the request that started p resumes from `await p` and its
\* finally sets the timer
BnSettle(p, ok) ==
  /\ bnPromises[p] = "pending"
  /\ bnPromises' = [bnPromises EXCEPT ![p] = IF ok THEN "resolved" ELSE "rejected"]
  /\ bnTimers' = bnTimers \cup {[p |-> p, due |-> bnNow + BUNDLE_DEBOUNCE_MS]}
  /\ UNCHANGED <<bnNow, bnEntry, bnServed>>
  /\ BnOnly

\* the timer fires: if (cur && cur.p === p) BUNDLE_INFLIGHT.delete(tKey)
BnTimer(tm) ==
  /\ tm \in bnTimers
  /\ tm.due <= bnNow
  /\ bnTimers' = bnTimers \ {tm}
  /\ bnEntry' = IF bnEntry # <<>> /\ bnEntry[1].p = tm.p THEN <<>> ELSE bnEntry
  /\ UNCHANGED <<bnNow, bnPromises, bnServed>>
  /\ BnOnly

BnNext ==
  \/ BnTick
  \/ BnRequest
  \/ \E p \in BnBundles, ok \in BOOLEAN : BnSettle(p, ok)
  \/ \E tm \in bnTimers : BnTimer(tm)

----------------------------------------------------------------------------
InitSelector == SelInit /\ MlOff /\ FtOff /\ CoOff /\ PlOff /\ ClOff /\ DmOff
    /\ CdOff /\ UnOff /\ TtOff /\ RwOff /\ CapOff /\ BdOff /\ TkOff /\ AbOff
    /\ ImOff /\ BnOff
SpecSelector == InitSelector /\ [][SelNext]_vars

InitMapLimit == MlInit /\ SelOff /\ FtOff /\ CoOff /\ PlOff /\ ClOff /\ DmOff
    /\ CdOff /\ UnOff /\ TtOff /\ RwOff /\ CapOff /\ BdOff /\ TkOff /\ AbOff
    /\ ImOff /\ BnOff
SpecMapLimit == InitMapLimit /\ [][MlNext]_vars

InitFetch == FtInit /\ SelOff /\ MlOff /\ CoOff /\ PlOff /\ ClOff /\ DmOff
    /\ CdOff /\ UnOff /\ TtOff /\ RwOff /\ CapOff /\ BdOff /\ TkOff /\ AbOff
    /\ ImOff /\ BnOff
SpecFetch == InitFetch /\ [][FtNext]_vars

InitCompute == CoInit /\ SelOff /\ MlOff /\ FtOff /\ PlOff /\ ClOff /\ DmOff
    /\ CdOff /\ UnOff /\ TtOff /\ RwOff /\ CapOff /\ BdOff /\ TkOff /\ AbOff
    /\ ImOff /\ BnOff
SpecCompute == InitCompute /\ [][CoNext]_vars

InitPipeline == PlInit /\ SelOff /\ MlOff /\ FtOff /\ CoOff /\ ClOff /\ DmOff
    /\ CdOff /\ UnOff /\ TtOff /\ RwOff /\ CapOff /\ BdOff /\ TkOff /\ AbOff
    /\ ImOff /\ BnOff
SpecPipeline == InitPipeline /\ [][PlNext]_vars

InitClassify == ClInit /\ SelOff /\ MlOff /\ FtOff /\ CoOff /\ PlOff /\ DmOff
    /\ CdOff /\ UnOff /\ TtOff /\ RwOff /\ CapOff /\ BdOff /\ TkOff /\ AbOff
    /\ ImOff /\ BnOff
SpecClassify == InitClassify /\ [][ClNext]_vars

InitSample == DmInit /\ SelOff /\ MlOff /\ FtOff /\ CoOff /\ PlOff /\ ClOff
    /\ CdOff /\ UnOff /\ TtOff /\ RwOff /\ CapOff /\ BdOff /\ TkOff /\ AbOff
    /\ ImOff /\ BnOff
SpecSample == InitSample /\ [][DmNext]_vars

InitCandidates == CdInit /\ SelOff /\ MlOff /\ FtOff /\ CoOff /\ PlOff
    /\ ClOff /\ DmOff /\ UnOff /\ TtOff /\ RwOff /\ CapOff /\ BdOff /\ TkOff
    /\ AbOff /\ ImOff /\ BnOff
SpecCandidates == InitCandidates /\ [][CdNext]_vars

InitUnique == UnInit /\ SelOff /\ MlOff /\ FtOff /\ CoOff /\ PlOff /\ ClOff
    /\ DmOff /\ CdOff /\ TtOff /\ RwOff /\ CapOff /\ BdOff /\ TkOff /\ AbOff
    /\ ImOff /\ BnOff
SpecUnique == InitUnique /\ [][UnNext]_vars

InitCacheTtl == TtInit /\ SelOff /\ MlOff /\ FtOff /\ CoOff /\ PlOff /\ ClOff
    /\ DmOff /\ CdOff /\ UnOff /\ RwOff /\ CapOff /\ BdOff /\ TkOff /\ AbOff
    /\ ImOff /\ BnOff
SpecCacheTtl == InitCacheTtl /\ [][TtNext]_vars

InitRank == RwInit /\ SelOff /\ MlOff /\ FtOff /\ CoOff /\ PlOff /\ ClOff
    /\ DmOff /\ CdOff /\ UnOff /\ TtOff /\ CapOff /\ BdOff /\ TkOff /\ AbOff
    /\ ImOff /\ BnOff
SpecRank == InitRank /\ [][RwNext]_vars

InitCapacity == CapInit /\ SelOff /\ MlOff /\ FtOff /\ CoOff /\ PlOff /\ ClOff
    /\ DmOff /\ CdOff /\ UnOff /\ TtOff /\ RwOff /\ BdOff /\ TkOff /\ AbOff
    /\ ImOff /\ BnOff
SpecCapacity == InitCapacity /\ [][CapNext]_vars

InitBundle == BdInit /\ SelOff /\ MlOff /\ FtOff /\ CoOff /\ PlOff /\ ClOff
    /\ DmOff /\ CdOff /\ UnOff /\ TtOff /\ RwOff /\ CapOff /\ TkOff /\ AbOff
    /\ ImOff /\ BnOff
SpecBundle == InitBundle /\ [][BdNext]_vars

InitTokens == TkInit /\ SelOff /\ MlOff /\ FtOff /\ CoOff /\ PlOff /\ ClOff
    /\ DmOff /\ CdOff /\ UnOff /\ TtOff /\ RwOff /\ CapOff /\ BdOff /\ AbOff
    /\ ImOff /\ BnOff
SpecTokens == InitTokens /\ [][TkNext]_vars

InitArtistScan == AbInit /\ SelOff /\ MlOff /\ FtOff /\ CoOff /\ PlOff
    /\ ClOff /\ DmOff /\ CdOff /\ UnOff /\ TtOff /\ RwOff /\ CapOff /\ BdOff
    /\ TkOff /\ ImOff /\ BnOff
SpecArtistScan == InitArtistScan /\ [][AbNext]_vars

InitImageCache == ImInit /\ SelOff /\ MlOff /\ FtOff /\ CoOff /\ PlOff
    /\ ClOff /\ DmOff /\ CdOff /\ UnOff /\ TtOff /\ RwOff /\ CapOff /\ BdOff
    /\ TkOff /\ AbOff /\ BnOff
SpecImageCache == InitImageCache /\ [][ImNext]_vars

InitDebounce == BnInit /\ SelOff /\ MlOff /\ FtOff /\ CoOff /\ PlOff /\ ClOff
    /\ DmOff /\ CdOff /\ UnOff /\ TtOff /\ RwOff /\ CapOff /\ BdOff /\ TkOff
    /\ AbOff /\ ImOff
SpecDebounce == InitDebounce /\ [][BnNext]_vars

----------------------------------------------------------------------------
\* Properties of the two single-flight layers

FtPendingFor(k) == {p \in FtPending : ftPromises[p].key = k}

\* C3: for every lookup key at most one upstream computation is in flight at
\* any time; while one is, it is the promise registered in SPOTIFY_INFLIGHT,
\* and every caller waiting for the key waits on a promise of that key -
\* the registered one as long as it is pending - having started none itself.
C3_OneLookupInFlightPerKey ==
  /\ \A k \in FtKeys :
       /\ Cardinality(FtPendingFor(k)) <= 1
       /\ \A p \in FtPendingFor(k) : ftInflight[k] = p
  /\ \A c \in FtCallers :
       ftCallers[c].pc \in {"owner", "attached"} =>
         /\ ftCallers[c].p \in FtLive
         /\ ftPromises[ftCallers[c].p].key = ftCallers[c].key
         /\ ftCallers[c].p \in FtPending => ftInflight[ftCallers[c].key] = ftCallers[c].p
  /\ \A p \in FtLive :
       Cardinality({c \in FtCallers : ftCallers[c].pc = "owner" /\ ftCallers[c].p = p}) <= 1

\* two callers of one key, the second attached to the first one's promise
\* while that promise is on its retry request
C3_Witness ==
  \E c1 \in FtCallers, c2 \in FtCallers :
    /\ ftCallers[c1].pc = "owner" /\ ftCallers[c2].pc = "attached"
    /\ ftCallers[c1].key = ftCallers[c2].key
    /\ ftCallers[c1].p = ftCallers[c2].p
    /\ ftPromises[ftCallers[c1].p].pc = "fetch2"

CoPendingFor(k) == {p \in CoPending : coRuns[p].key = k}

\* C4: for every compute key at most one pipeline run is pending at any time;
\* a caller that arrives while a run of its key is pending is handed that
\* run's promise (the registered one) and starts no run of its own, so every
\* run was started by the one caller that owns it.
C4_OnePipelinePerComputeKey ==
  /\ \A k \in CoKeys :
       /\ Cardinality(CoPendingFor(k)) <= 1
       /\ \A p \in CoPendingFor(k) : coInflight[k] = p
  /\ \A c \in CoCallers :
       /\ coCallers[c].pc \in {"owner", "attached"} =>
            /\ coCallers[c].p \in CoLive
            /\ coRuns[coCallers[c].p].key = coCallers[c].key
            /\ coCallers[c].p \in CoPending => coInflight[coCallers[c].key] = coCallers[c].p
       /\ coCallers[c].pc = "attached" => coRuns[coCallers[c].p].startedBy # c
       /\ coCallers[c].pc = "owner" => coRuns[coCallers[c].p].startedBy = c

\* two callers of one compute key share one pending pipeline run
C4_Witness ==
  \E c1 \in CoCallers, c2 \in CoCallers :
    /\ coCallers[c1].pc = "owner" /\ coCallers[c2].pc = "attached"
    /\ coCallers[c1].key = coCallers[c2].key
    /\ coCallers[c1].p = coCallers[c2].p
    /\ coRuns[coCallers[c1].p].pc = "pipeline"

----------------------------------------------------------------------------
\* Properties of mapLimit

\* true while no fn invocation of the call has rejected
MlAllResolved ==
  \A w \in DOMAIN mlWorkers : mlWorkers[w].pc \notin {"threw", "failed"}

\* C5: during mapLimit(items, limit, fn) with limit >= 1 the number of fn
\* invocations started and not yet settled never exceeds limit, nor the
\* number of items, whatever the order of completion.
C5_InFlightAtMostLimit ==
  mlState # "idle" =>
    /\ Cardinality(MlInFlight) <= mlLimit
    /\ Cardinality(MlInFlight) <= MlN

\* more items than the limit, the limit reached, and a worker already on its
\* second item
C5_Witness ==
  /\ MlN > mlLimit
  /\ mlLimit >= 2
  /\ Cardinality(MlInFlight) = mlLimit
  /\ \E w \in MlInFlight : mlWorkers[w].idx >= mlLimit

\* C6: when every fn invocation resolves, fn is invoked exactly once per index
\* (never twice at any time), mapLimit resolves only after all n invocations
\* have settled, and out[i] is the result of fn(items[i]) for every i.
C6_EachIndexOnceInOrder ==
  /\ mlState # "idle" => \A k \in DOMAIN mlCalls : mlCalls[k] <= 1
  /\ (mlState = "resolved" /\ MlAllResolved) =>
       /\ MlRunning = {}
       /\ DOMAIN mlOut = 0..(MlN - 1)
       /\ \A k \in 0..(MlN - 1) :
            /\ mlCalls[k] = 1
            /\ mlOut[k] = FnValue(mlItems[k + 1], k)

\* a resolved call of three different items under limit 2 in which the worker
\* of index 1 finished before the worker of index 0
C6_Witness ==
  /\ mlState = "resolved" /\ MlAllResolved
  /\ MlN = 3 /\ mlLimit = 2
  /\ mlItems[1] # mlItems[2]
  /\ mlWorkers[1].idx > mlWorkers[2].idx

----------------------------------------------------------------------------
\* Properties of the Selector

SelGap == Abs(getAppearances(selList[1]) - getAppearances(selList[2]))

SelS == strictnessForRange(selRange)

\* C9: for a list of at least two candidates whose first two appearance
\* counts differ by at least 2, pickTopForColor returns the one of those two
\* with more appearances, whatever their scores and the dominance margin.
C9_AppearanceGapRule ==
  (selPc = "picked" /\ Len(selList) >= 2 /\ SelGap >= 2) =>
    /\ selPick \in {selList[1], selList[2]}
    /\ getAppearances(selPick) =
         Max(getAppearances(selList[1]), getAppearances(selList[2]))

\* the spec's scenario: A (3.0, 5 appearances) ahead of B (2.9, 2 appearances),
\* no dominance, and a variety index that would have chosen B
C9_Witness ==
  /\ selPc = "picked" /\ Len(selList) = 2
  /\ selList[1].score = 300 /\ getAppearances(selList[1]) = 5
  /\ selList[2].score = 290 /\ getAppearances(selList[2]) = 2
  /\ ~DominatesBy(300, 290, SelS.dominanceMargin)
  /\ VarietyIndex(selList, SelS.pickWindow, PrimaryKey(selRange, selColor)) = 2
  /\ selPick = selList[1]

\* C10: with an appearance gap below 2 the leader is kept when the runner-up's
\* score is <= 0 or the leader's score reaches runner-up x (1 + margin);
\* otherwise the pick is the candidate at index hash(key) mod min(N, length),
\* one of the first N candidates of the list.
C10_DominanceElseVariety ==
  (selPc = "picked" /\ Len(selList) >= 2 /\ SelGap < 2) =>
    IF \/ selList[2].score <= 0
       \/ selList[1].score * 100 >= selList[2].score * (100 + SelS.dominanceMargin)
    THEN selPick = selList[1]
    ELSE LET w == Min(SelS.pickWindow, Len(selList))
             idx == HashMod(hashStringToInt(PrimaryKey(selRange, selColor)), w)
         IN  /\ idx < SelS.pickWindow
             /\ idx < Len(selList)
             /\ selPick = selList[idx + 1]

\* a variety pick that is not the leader, on the third candidate
C10_Witness ==
  /\ selPc = "picked" /\ Len(selList) = 3 /\ SelGap < 2
  /\ selList[2].score > 0
  /\ ~DominatesBy(selList[1].score, selList[2].score, SelS.dominanceMargin)
  /\ selPick = selList[3]

----------------------------------------------------------------------------
\* Properties of the pipeline

PlTop(c) == plResult[c].top

\* the run has returned its Result
PlReturned == plOutcome = "resolved"

\* C1: in every Result returned by computeResultsForRange, whatever the
\* candidates, the outcomes of the backfill stages and the swallowed failures,
\* no album id is the top of two different buckets.
C1_UniqueTops ==
  PlReturned =>
    \A c1 \in Colors : \A c2 \in Colors :
      (c1 # c2 /\ PlTop(c1) # null /\ PlTop(c2) # null)
        => PlTop(c1).id # PlTop(c2).id

\* both listings of album 1 were on the first page (a red and an orange one),
\* the Result keeps the album in one bucket, a failure was swallowed and a
\* backfill stage filled a bucket
C1_Witness ==
  /\ PlReturned
  /\ plPlace[1] = "top" /\ plPlace[2] = "top"
  /\ plFailures = 1
  /\ Cardinality({c \in Colors : PlTop(c) # null /\ PlTop(c).id = Entry(1).id}) = 1
  /\ \E c \in Colors : plBackfilledBy[c] # "none"

\* C2: once a bucket's top is set, by the Selector (after its uniqueness pass)
\* or by a backfill stage, no later step of the run replaces or clears it, up
\* to and including the step that returns the Result; so a stage writes only
\* to buckets that are empty.
C2_TopNeverReplaced ==
  [][\A c \in Colors :
       (plPc \notin {"off", "select"} /\ PlTop(c) # null)
         => plResult'[c].top = PlTop(c)]_vars

\* a returned Result whose red top was written by the saved stage and whose
\* orange top was written by the last resort, next to tops of the Selector
C2_Witness ==
  /\ PlReturned
  /\ plBackfilledBy["red"] = "saved" /\ PlTop("red").source = "saved"
  /\ plBackfilledBy["orange"] = "other_ranges_last"
  /\ PlTop("yellow") # null /\ PlTop("yellow").source = "none"

\* C7: a failing lookup or colour sampling of a backfill stage S1..S5 is
\* swallowed: the run is rejected only by a failure that precedes the
\* backfill stages, never while it is in one of them.
C7_BackfillFailureSwallowed ==
  plOutcome = "rejected" => plPc = "select"

\* the colour of an album's image, and whether its id is no bucket's top
EntryColor(e) == hexToSimpleBucket(getDominantFromImage(Entry(e).img).hex)

PlUnused(e) == Entry(e).id \notin getUsedAlbumIds(plResult)

\* a saved album the saved scan accepts for colour c at the floor
SavedMatch(c, floor) ==
  \E e \in Entries :
    /\ plPlace[e] = "saved" /\ PlUnused(e)
    /\ EntryColor(e) = c /\ Entry(e).confidence >= floor

\* a candidate of the top-artists scan it accepts for colour c at the floor
ArtistMatch(c, floor) ==
  LET candidates ==
        ArtistCandidatesFrom(EntryItems(plPlace, "artist", {}), 1, {},
                             getUsedAlbumIds(plResult))
  IN  \E i \in 1..Len(candidates) :
        /\ EntryColor(candidates[i].img) = c
        /\ Entry(candidates[i].img).confidence >= floor

\* an album of a pool at an index below `to`, of colour c, unused, at the floor
PoolMatch(pool, to, c, floor) ==
  \E i \in 1..Len(pool.cands) :
    /\ pool.at[i] < to
    /\ pool.cands[i].id \notin getUsedAlbumIds(plResult)
    /\ hexToSimpleBucket(getDominantFromImage(pool.cands[i].img).hex) = c
    /\ getDominantFromImage(pool.cands[i].img).confidence >= floor

\* the index the wide stage has enriched up to when its while loop ends with
\* a bucket still empty
WideEnrichedTo ==
  LET len == WidePool(plPlace).len
      FIRST == Min(PlS.firstEnrich, len)
      MAX_TOTAL == Min(PlS.maxTotalEnrich, len)
      turns == IF MAX_TOTAL > FIRST
               THEN ((MAX_TOTAL - FIRST) + (PlS.enrichBatch - 1)) \div PlS.enrichBatch
               ELSE 0
  IN  FIRST + (turns * PlS.enrichBatch)

\* the wide stage has a match for colour c: one of the first FIRST albums at
\* minConfWide or, when the pool is longer, any enriched album
WideMatch(c) ==
  \/ PoolMatch(WidePool(plPlace), Min(PlS.firstEnrich, WidePool(plPlace).len), c,
               PlS.minConfWide)
  \/ /\ WidePool(plPlace).len > PlS.firstEnrich
     /\ PoolMatch(WidePool(plPlace), WideEnrichedTo, c, 0)

\* the stage of last resort has a match for c: any of its first 420 albums
LastMatch(c) == PoolMatch(LastPool(plPlace, plRange), 420, c, 0)

\* the buckets that were empty after the artists stage: those empty at the
\* end and those a later stage filled
EmptyAfterArtists ==
  {c \in Colors :
     \/ PlTop(c) = null
     \/ plBackfilledBy[c] \in {"saved_wide", "artist_wide", "wide_top_tracks",
                               "ultra_loose", "other_ranges_last"}}

----------------------------------------------------------------------------
\* Properties of the colour classification

\* C11: hexToSimpleBucket is total and deterministic: whatever colour it is
\* given, each call returns one of the ten labels of COLOR_ORDER, and a
\* second call on the same colour returns the label the first call returned.
C11_ClassifyTotalDeterministic ==
  /\ clPc \in {"once", "twice"} =>
       /\ clBucket \in Colors
       /\ Cardinality({c \in Colors : c = clBucket}) = 1
  /\ clPc = "twice" => clBucket = clFirst

\* a colour that passes every test of the chain and takes the final return
\* was classified twice
C11_Witness ==
  /\ clPc = "twice"
  /\ clBucket = "pink"
  /\ clHex = rgbToHex(255, 0, 200)

----------------------------------------------------------------------------
\* Properties of the colour sampling

\* the sampling of the image fails: there is no image, it cannot be fetched,
\* the response is not ok, it does not decode, or no pixel is opaque enough
DmSamplingFails ==
  \/ dmImage.kind \in {"none", "unreachable", "notok", "undecodable"}
  \/ dmImage.kind = "raster" /\ UsedPixels(dmImage) = <<>>

\* 0 <= confidence <= 1
DmInUnitInterval(confidence) ==
  /\ confidence.d > 0
  /\ 0 <= confidence.n
  /\ confidence.n <= confidence.d

\* C12: an album that went through enrichWithDominant, and a candidate built
\* by a scan's sampling, has a confidence in [0, 1] whenever its hex is set;
\* when the sampling of its image fails, the enriched album has hex null and
\* confidence 0 and the scan builds no candidate.
C12_ConfidenceInRangeOrFailed ==
  \A c \in DmCallers :
    dmCallers[c].pc = "done" =>
      /\ (dmCallers[c].out.hex # NoHex => DmInUnitInterval(dmCallers[c].out.confidence))
      /\ dmCallers[c].set => (dmCallers[c].kind = "enrich" \/ dmCallers[c].out.hex # NoHex)
      /\ DmSamplingFails =>
           /\ dmCallers[c].out = DmFail
           /\ dmCallers[c].kind = "scan" => ~dmCallers[c].set

\* an image with an alpha channel, one pixel of three opaque enough, was
\* sampled for an album under enrichment and, from the cache, for a scan that
\* built a candidate of it: confidence 0.6 * 1/3 + 0.4 * 1
C12_Witness ==
  /\ dmImage.kind = "raster"
  /\ dmImage.channels = 4
  /\ Len(UsedPixels(dmImage)) = 1
  /\ dmCallers[1].pc = "done"
  /\ dmCallers[1].kind = "enrich"
  /\ dmCallers[1].out.hex = rgbToHex(200, 50, 50)
  /\ dmCallers[1].out.confidence = Frac(3, 5)
  /\ dmCallers[2].pc = "done"
  /\ dmCallers[2].kind = "scan"
  /\ dmCallers[2].set
  /\ dmCallers[2].out = dmCallers[1].out

----------------------------------------------------------------------------
\* Properties of the sources of candidates

\* the candidates a call returned (null left out)
CdReturned == {cdOut[i] : i \in {j \in 1..Len(cdOut) : cdOut[j] # null}}

\* C13: no album whose track count is a number <= 1 becomes a candidate: not
\* one of the Aggregator's list, not the pick of the saved scan, not the pick
\* of the artist scan.
C13_NoOneTrackCandidate ==
  cdPc = "done" =>
    \A a \in CdReturned : a.total_tracks = NoTracks \/ a.total_tracks > 1

\* a single, an album and an album reporting no track were scanned as saved
\* albums for red, the single's image being the reddest by confidence, and
\* the album was picked
C13_Witness ==
  /\ cdPc = "done"
  /\ cdCall.op = "saved"
  /\ cdCall.targetColor = "red"
  /\ cdCall.usedIds = {}
  /\ <<cdItems[1].item.id, cdItems[2].item.id, cdItems[3].item.id>> = <<3, 1, 4>>
  /\ Len(cdOut) = 1 /\ cdOut[1] # null /\ cdOut[1].id = 1

\* the scanned albums with an id that is not used, an image, and a sampled
\* colour of the target bucket at the minimum confidence or above
CdQualifies ==
  {cdItems[i].item : i \in
     {j \in 1..Len(cdItems) :
        LET it == cdItems[j].item
        IN  /\ it.id # 0 /\ it.id \notin cdCall.usedIds
            /\ it.img # 0
            /\ it.sample.hex # NoHex
            /\ hexToSimpleBucket(it.sample.hex) = cdCall.targetColor
            /\ it.sample.confidence >= cdCall.minConf}}

\* those of them that are not one-track albums
CdQualifiesAsAlbum ==
  {it \in CdQualifies : it.total_tracks = NoTracks \/ it.total_tracks > 1}

\* a scan returned one of the highest confidence among the albums of Q, and
\* nothing exactly when Q is empty
CdBestOf(Q) ==
  /\ Len(cdOut) = 1
  /\ cdOut[1] = null <=> Q = {}
  /\ cdOut[1] # null =>
       /\ \E it \in Q : /\ cdOut[1].id = it.id
                         /\ cdOut[1].hex = it.sample.hex
                         /\ cdOut[1].confidence = it.sample.confidence
       /\ \A it \in Q : it.sample.confidence <= cdOut[1].confidence

CdMentions ==
  {i \in 1..Min(Len(cdItems), cdCall.pages * cdCall.pageSize) :
     /\ cdItems[i].item.id # 0
     /\ cdItems[i].item.total_tracks = NoTracks \/ cdItems[i].item.total_tracks > 1}

\* those of one merge key
CdMentionsOf(key) == {i \in CdMentions : cdItems[i].key = key}

\* the sum of a sequence of numbers
RECURSIVE CdSum(_)
CdSum(seq) == IF seq = <<>> THEN 0 ELSE Head(seq) + CdSum(Tail(seq))

\* C26: in gatherTopTrackCandidates, before the truncation to maxUnique, the
\* mentions of one merge key make exactly one candidate: its id is that of
\* the first of them, its appearances their number, its score the sum of
\* their rankWeight x timeWeight; and the appearances of all candidates sum
\* to the number of mentions with an album id that are not single-track.
C26_OneCandidatePerKey ==
  (cdPc = "done" /\ cdCall.op = "gather" /\ cdCall.maxUnique >= Len(cdItems)) =>
    LET total == Max(1, cdCall.pages * cdCall.pageSize)
        keys == {cdItems[i].key : i \in CdMentions}
    IN  /\ Len(cdOut) = Cardinality(keys)
        /\ \A key \in keys :
             LET of == CdMentionsOf(key)
                 first == CHOOSE i \in of : \A j \in of : i <= j
                 made == {n \in 1..Len(cdOut) : cdOut[n].id = cdItems[first].item.id}
             IN  /\ Cardinality(made) = 1
                 /\ \A n \in made :
                      /\ cdOut[n].appearances = Cardinality(of)
                      /\ cdOut[n].score =
                           CdSum([i \in 1..Len(cdItems) |->
                                    IF i \in of
                                    THEN rankWeight(i - 1, total) * cdCall.timeWeight
                                    ELSE 0])
        /\ CdSum([n \in 1..Len(cdOut) |-> cdOut[n].appearances])
             = Cardinality(CdMentions)

\* two editions of one album (one merge key) and a single were gathered
\* over two pages: one candidate with the id of the first edition and two
\* appearances
C26_Witness ==
  /\ cdPc = "done" /\ cdCall.op = "gather"
  /\ cdCall.pages = 2 /\ cdCall.maxUnique >= Len(cdItems)
  /\ <<cdItems[1].item.id, cdItems[2].item.id, cdItems[3].item.id>> = <<2, 3, 1>>
  /\ Len(cdOut) = 1
  /\ cdOut[1].id = 2 /\ cdOut[1].appearances = 2

----------------------------------------------------------------------------
\* Properties of the uniqueness pass

\* the buckets whose top has the id of c's top in the result passed in
UnSameId(c) ==
  {k \in Colors : unResult[k].top # null /\ unResult[k].top.id = unResult[c].top.id}

\* C14: enforceUniqueTops leaves an album id that is top of several buckets
\* in exactly one of them, one whose candidate no other of them is stronger
\* than by score, then confidence, then count, and makes the others
\* { top: null, others: [] }; a bucket whose top id is not repeated is left
\* as it was.
C14_StrongerDuplicateKept ==
  unPc = "done" =>
    \A c \in Colors :
      /\ unResult[c].top = null => unOut[c] = unResult[c]
      /\ unResult[c].top # null =>
           /\ unOut[c] \in {unResult[c], emptyBucket}
           /\ Cardinality({k \in UnSameId(c) : unOut[k] = unResult[k]}) = 1
           /\ unOut[c] = unResult[c] =>
                \A k \in UnSameId(c) :
                  cmpAlbumStrength(unResult[c].top, unResult[k].top) <= 0

\* the TTL of the cache a read was made on
TtTtl(read) == IF read.cache = "lookup" THEN SPOTIFY_CACHE_TTL ELSE COMPUTE_TTL

\* C15: a read of the lookup cache or of the computed-results cache returns
\* a stored value only while the entry's age is at most that cache's TTL; a
\* read of an older entry removes the entry and reports a miss.
C15_NoReadOlderThanTtl ==
  ttRead # TtNoRead =>
    /\ ttRead.got # null =>
         /\ ttRead.hit # absent
         /\ ttRead.got = ttRead.hit.v
         /\ ttRead.now - ttRead.hit.t <= TtTtl(ttRead)
    /\ (ttRead.hit # absent /\ ttRead.now - ttRead.hit.t > TtTtl(ttRead)) =>
         /\ ttRead.got = null
         /\ ttRead.left = absent

\* a computed result is read at the age of exactly its TTL and returned, and
\* the lookup cache holds an entry older than its TTL no read has removed yet
C15_Witness ==
  /\ ttRead # TtNoRead
  /\ ttRead.cache = "computed"
  /\ ttRead.hit # absent
  /\ ttRead.now - ttRead.hit.t = COMPUTE_TTL
  /\ ttRead.got = CoResult(TtKey)
  /\ ttSpotify[TtKey] # absent
  /\ ttNow - ttSpotify[TtKey].t > SPOTIFY_CACHE_TTL

\* the callers that hold promise p: its creator and those handed it
FtHolders(p) ==
  {c \in FtCallers : ftCallers[c].pc \in {"owner", "attached"} /\ ftCallers[c].p = p}

\* C16: one spotifyFetchJson computation issues at most two upstream
\* requests, the second only when the first response was a 429 and after the
\* backoff wait; when the second response is not OK or the first is an error
\* other than 429 the computation ends with that error, every caller holding
\* it gets the error when it resumes, and the cache is not written.
C16_OneRetryThenError ==
  [][ /\ \A p \in DOMAIN ftPromises :
           /\ ftPromises'[p] # absent => ftPromises'[p].requests <= 2
           /\ (ftPromises[p] # absent /\ ftPromises'[p] # absent
                 /\ ftPromises'[p].requests > ftPromises[p].requests) =>
                /\ ftPromises[p].pc = "backoff"
                /\ ftPromises[p].status = "429"
                /\ ftPromises[p].requests = 1
           /\ (ftPromises[p] # absent /\ ftPromises[p].pc \in {"fetch1", "fetch2"}
                 /\ ftPromises'[p] # ftPromises[p]
                 /\ ~(ftPromises[p].pc = "fetch1" /\ ftPromises'[p].status = "429")
                 /\ ftPromises'[p].status # "ok" /\ ftPromises'[p].status # "ok_nojson") =>
                /\ ftPromises'[p].pc = "rejected"
                /\ ftCache' = ftCache
      /\ \A c \in FtCallers :
           (ftCallers[c].pc \in {"owner", "attached"} /\ ftCallers'[c].pc = "got"
             /\ ftPromises[ftCallers[c].p].pc = "rejected") =>
               ftCallers'[c].got = [threw |-> ftPromises[ftCallers[c].p].status]
    ]_vars

\* a computation was rate limited twice: two requests, rejected with 429,
\* its creator has the error, a second caller still holds the promise, and
\* the key has no cache entry
C16_Witness ==
  \E p \in DOMAIN ftPromises :
    /\ ftPromises[p] # absent
    /\ ftPromises[p].pc = "rejected"
    /\ ftPromises[p].requests = 2
    /\ ftPromises[p].status = "429"
    /\ \E c \in FtCallers : /\ ftCallers[c].pc = "got"
                             /\ ftCallers[c].key = ftPromises[p].key
                             /\ ftCallers[c].got = [threw |-> "429"]
    /\ FtHolders(p) # {}
    /\ ftCache[ftPromises[p].key] = absent

\* C17: every Result computeResultsForRange returns maps each of the ten
\* bucket labels to an entry with a top (a candidate or null) and an others
\* list of at most 6 candidates, none with the id of that bucket's top.
C17_ResultShape ==
  PlReturned =>
    /\ DOMAIN plResult = Colors
    /\ Cardinality(Colors) = 10
    /\ \A c \in Colors :
         /\ DOMAIN plResult[c] = {"top", "others"}
         /\ plResult[c].top = null \/ plResult[c].top.id \in Nat \ {0}
         /\ Len(plResult[c].others) <= 6
         /\ \A i \in 1..Len(plResult[c].others) :
              /\ plResult[c].others[i].id \in Nat \ {0}
              /\ plResult[c].top # null => plResult[c].others[i].id # plResult[c].top.id

\* a returned Result whose yellow bucket was cut to six others out of more,
\* with a bucket a backfill stage filled and a bucket left empty
C17_Witness ==
  /\ PlReturned
  /\ plResult["yellow"].top # null
  /\ Len(plResult["yellow"].others) = 6
  /\ Len(BucketOf(enrichWithDominant(Limited(TopCandidates(plPlace)), {}), "yellow")) > 7
  /\ \E c \in Colors : plBackfilledBy[c] # "none" /\ plResult[c].others = <<>>
  /\ \E c \in Colors : plResult[c] = emptyBucket

\* the run is at one of the widened scans, about to issue its lookup
PlAtWidenedScan == plPc \in {"saved_wide", "artist_wide"}

\* C19: the widened stage (the deeper saved and artist scans at the lower
\* confidence floor) is entered only from the end of the artists stage and
\* only with at least two buckets empty then; with fewer empty buckets the
\* run is never at one of its lookups and no bucket is filled by them.
C19_WidenOnlyWithTwoEmpty ==
  /\ [][ (PlAtWidenedScan' /\ ~PlAtWidenedScan) =>
           (plPc = "artist" /\ Len(missing(plResult')) >= 2) ]_vars
  /\ [](Cardinality(EmptyAfterArtists) < 2 =>
           /\ ~PlAtWidenedScan
           /\ \A c \in Colors : plBackfilledBy[c] \notin {"saved_wide", "artist_wide"})

\* a run came from the artists stage with exactly two buckets empty, and
\* its widened saved scan filled one of them
C19_Witness ==
  /\ plPc = "artist_wide"
  /\ Cardinality(EmptyAfterArtists) = 2
  /\ Len(missing(plResult)) = 1
  /\ \E c \in Colors : plBackfilledBy[c] = "saved_wide"

\* the backfill stage a position of the run belongs to: S1 saved, S2
\* artists, S3 the widened scans, S4 the wide pool, S5 the last resort
StageOf(pc) ==
  CASE pc = "saved" -> 1
    [] pc = "artist" -> 2
    [] pc \in {"saved_wide", "artist_wide"} -> 3
    [] pc \in {"wide", "wide_more"} -> 4
    [] pc = "last" -> 5
    [] OTHER -> 0

\* C20: enforceUniqueTops is executed at the end of every backfill stage S1
\* to S5: the step in which a run leaves a stage makes a call of it.
C20_EnforcedAfterEveryStage ==
  [][ (StageOf(plPc) # 0 /\ StageOf(plPc') # StageOf(plPc)) =>
        plEnforced' > plEnforced ]_vars

\* the wide top-tracks stage has run and ended, the run (none of whose
\* lookups or samplings failed) now stands before the last resort
PlWideEnded ==
  /\ plPc = "last" /\ plOutcome = "pending" /\ plFailures = 0
  /\ WidenAt(Cardinality(EmptyAfterArtists))

\* C21: when the wide top-tracks stage has run and ended with a bucket still
\* empty, no enriched album of the wide pool with an unused id classifies to
\* that bucket, at whatever confidence.
C21_ZeroFloorBeforeGivingUp ==
  PlWideEnded =>
    \A c \in Colors :
      PlTop(c) = null => ~PoolMatch(WidePool(plPlace), WideEnrichedTo, c, 0)

\* the callers whose `await fetch(url)` for the image is in flight
DmFetching == {c \in DmCallers : dmCallers[c].pc = "fetch"}

\* C22: samplings of one image reference are coalesced: at most one fetch
\* of the image is in flight at any time.
C22_OneImageFetchInFlight == Cardinality(DmFetching) <= 1

\* the place of a bucket label in COLOR_ORDER
UnIndex(c) == CHOOSE i \in 1..Len(COLOR_ORDER) : COLOR_ORDER[i] = c

\* C23: when the same album id is the top of two buckets whose candidates
\* tie on score, confidence and count, the bucket that comes first in label
\* order keeps its top and the other bucket is cleared.
C23_TieKeepsFirstBucket ==
  unPc = "done" =>
    \A c1 \in Colors : \A c2 \in Colors :
      (/\ unResult[c1].top # null /\ unResult[c2].top # null
       /\ UnIndex(c1) < UnIndex(c2)
       /\ UnSameId(c1) = {c1, c2}
       /\ cmpAlbumStrength(unResult[c1].top, unResult[c2].top) = 0) =>
        /\ unOut[c1] = unResult[c1]
        /\ unOut[c2] = emptyBucket

\* C24: every candidate's score is capped at DOMINANCE_CAP: that of every
\* candidate handed to the Selector, and that of every top of a returned
\* Result, whichever stage supplied it.
C24_ScoreCapped ==
  /\ plPc = "select" =>
       \A artistsOk \in BOOLEAN :
         LET limited == Limited(WithBonus(TopCandidates(plPlace), artistsOk))
         IN  \A i \in 1..Len(limited) : limited[i].score <= DOMINANCE_CAP
  /\ PlReturned =>
       \A c \in Colors : PlTop(c) # null => PlTop(c).score <= DOMINANCE_CAP

\* C25: rankWeight is 1.0 at position 0 for every window size total >= 1,
\* does not increase with the position inside the window, and is 0.0 at the
\* last position of a window of more than one position.  (rwOut holds the
\* weights in units of 1 / RankUnit(total).)
C25_RankWeightDecays ==
  /\ rwOut[0] # <<>> => rwOut[0][1] = RankUnit(rwTotal)
  /\ \A i \in DOMAIN rwOut : \A j \in DOMAIN rwOut :
       (i <= j /\ rwOut[i] # <<>> /\ rwOut[j] # <<>>) => rwOut[j][1] <= rwOut[i][1]
  /\ (rwTotal > 1 /\ rwOut[rwTotal - 1] # <<>>) => rwOut[rwTotal - 1][1] = 0

\* the keys a Map holds
MapKeys(map) == {map[i].k : i \in 1..Len(map)}

\* C27: each cache holds at most its capacity after every insertion; an
\* insertion that pushes the size over the limit evicts exactly one entry,
\* the one whose key was inserted earliest among those present, and never
\* the entry just inserted; any other insertion evicts nothing.
C27_OldestEvictedAtCapacity ==
  [][ /\ Len(capMap') <= CapMax(capWhich)
      /\ capKey' \in MapKeys(capMap')
      /\ IF Cardinality(MapKeys(capMap) \cup {capKey'}) > CapMax(capWhich)
         THEN \E old \in MapKeys(capMap) :
                /\ old # capKey'
                /\ \A k \in MapKeys(capMap) : capSince[old] <= capSince[k]
                /\ MapKeys(capMap') = (MapKeys(capMap) \cup {capKey'}) \ {old}
         ELSE MapKeys(capMap') = MapKeys(capMap) \cup {capKey'}
    ]_vars

\* the colour cache is full, a key present was set again without moving,
\* and the insertion of a new key has evicted the oldest key
C27_Witness ==
  /\ capWhich = "color"
  /\ Len(capMap) = CapMax(capWhich)
  /\ capSets = CapMax(capWhich) + 2
  /\ capKey = capMap[Len(capMap)].k
  /\ capSince[capKey] = capSets
  /\ capSince[capMap[1].k] = 2
  /\ capSince[1] = 0

\* the labels the metadata may give a top of the given `source`: the saved
\* and the artist scans fill a bucket at the first attempt or in the widened
\* stage, a pool's pick carries the label of its stage as its source
StageLabels(source) ==
  CASE source = "none" -> {"top_tracks"}
    [] source = "saved" -> {"saved", "saved_wide"}
    [] source = "artist" -> {"artist", "artist_wide"}
    [] source \in {"wide_top_tracks", "ultra_loose", "other_ranges_last"} -> {source}
    [] OTHER -> {}

\* C28: the metadata of a returned Result records for each bucket the stage
\* that filled it: top_tracks for a pick of the Selector, and saved, artist,
\* a label of the widened stage, ultra_loose or other_ranges_last for the
\* backfill stage that set its top; it records no label for an empty bucket.
C28_StageLabelled ==
  PlReturned =>
    \A c \in Colors :
      IF PlTop(c) = null THEN plBackfilledBy[c] = "none"
      ELSE plBackfilledBy[c] \in StageLabels(PlTop(c).source)

\* the HSV form of the classified colour as rgbToHsv computes it, compared
\* with a threshold: v < n / m, v > n / m, s < n / m, h < t
ClHsv == rgbToHsv(hexToRgb(clHex).r, hexToRgb(clHex).g, hexToRgb(clHex).b)

ClValueBelow(n, m) == ClHsv.mx * m < n * 255

ClValueAbove(n, m) == ClHsv.mx * m > n * 255

ClSaturationBelow(n, m) ==
  \/ ClHsv.d * m < n * ClHsv.mx
  \/ ClHsv.mx > 0 /\ ClHsv.d * m = n * ClHsv.mx /\ clLow.s

\* (a hue of 0 is computed as 0: no double lies below the start of the arcs)
ClHueBelow(t) ==
  \/ ClHsv.hd < t * ClHsv.d
  \/ ClHsv.d > 0 /\ t > 0 /\ ClHsv.hd = t * ClHsv.d /\ clLow.h

\* the hue arcs [from, to) and their buckets
HueArcs ==
  {<<330, 360, "red">>, <<0, 15, "red">>, <<15, 45, "orange">>,
   <<45, 75, "yellow">>, <<75, 160, "green">>, <<160, 250, "blue">>,
   <<250, 290, "purple">>, <<290, 330, "pink">>}

\* the arcs the hue of the classified colour falls in
ClArcs == {a \in HueArcs : ~ClHueBelow(a[1]) /\ ClHueBelow(a[2])}

\* C29: hexToSimpleBucket applies its tests in priority order on the HSV
\* form of the colour: value < 0.14 gives black; else value > 0.9 and
\* saturation < 0.1 gives white; else saturation < 0.18 gives grey; else the
\* hue falls in exactly one of the arcs [330,360) and [0,15) red, [15,45)
\* orange, [45,75) yellow, [75,160) green, [160,250) blue, [250,290) purple,
\* [290,330) pink, and that arc's bucket is the result.
C29_PriorityThenOneArc ==
  clPc \in {"once", "twice"} =>
    IF ClValueBelow(14, 100) THEN clBucket = "black"
    ELSE IF ClValueAbove(9, 10) /\ ClSaturationBelow(1, 10) THEN clBucket = "white"
    ELSE IF ClSaturationBelow(18, 100) THEN clBucket = "grey"
    ELSE /\ Cardinality(ClArcs) = 1
         /\ \A a \in ClArcs : clBucket = a[3]

\* a colour of hue 351.5, on the arc of red that ends at 360, is red
C29_Witness ==
  /\ clPc = "once"
  /\ clHex = rgbToHex(255, 0, 36)
  /\ ClArcs = {<<330, 360, "red">>}
  /\ clBucket = "red"

HueBuckets == {"red", "orange", "yellow", "green", "blue", "purple", "pink"}

\* twice the middle of the bucket's arc, in degrees (red's arc runs from 330
\* over 360 to 15)
ArcMiddleTwice(bucket) ==
  IF bucket = "red" THEN (330 + 360 + 15) % 720
  ELSE LET a == CHOOSE a \in HueArcs : a[3] = bucket IN a[1] + a[2]

\* the classified colour has the hue of the bucket's centre, or of the
\* middle of its arc, and a saturation and a value that none of the black,
\* white and grey tests takes
ClAtCentreOf(bucket) ==
  /\ ClHsv.d > 0
  /\ \/ ClHsv.hd = targetBucketToHSVCenter(bucket).h * ClHsv.d
     \/ 2 * ClHsv.hd = ArcMiddleTwice(bucket) * ClHsv.d
  /\ ~ClValueBelow(14, 100)
  /\ ~(ClValueAbove(9, 10) /\ ClSaturationBelow(1, 10))
  /\ ~ClSaturationBelow(18, 100)

\* C30: for each of the seven hue buckets, an RGB colour whose hue is the
\* centre of the bucket's arc, and whose saturation and value are outside
\* the black, white and grey thresholds, is classified as that bucket.
C30_CentreClassifiesToBucket ==
  clPc \in {"once", "twice"} =>
    \A bucket \in HueBuckets : ClAtCentreOf(bucket) => clBucket = bucket

\* the colour of hue 315, saturation 0.45 and value 0.63 is classified pink
C30_Witness ==
  /\ clPc = "once"
  /\ clHex = rgbToHex(160, 88, 142)
  /\ ClAtCentreOf("pink")
  /\ clBucket = "pink"

----------------------------------------------------------------------------
\* A run whose lookups and image fetches all settle.  The albums are among
\* the saved albums, behind the image-less albums of the other windows, or
\* nowhere.
SettlingPlaces == {"none", "saved", "far"}

InitSettling == InitPipeline /\ plPlace \in [Entries -> SettlingPlaces]

\* Every await of a pending run returns in the end, so the run takes its
\* next step: weak fairness of PlNext, WF_vars(PlNext), with `the run is
\* pending` for ENABLED <<PlNext>>_vars (a pending run is at an await).
PlSettles == []<>(plOutcome # "pending") \/ []<><<PlNext>>_vars

SpecPipelineSettling == InitSettling /\ [][PlNext]_vars /\ PlSettles

\* C31: every computeResultsForRange run terminates, resolving with a Result
\* or rejecting, provided every lookup and every image fetch settles.
C31_RunTerminates == <>(plOutcome \in {"resolved", "rejected"})

\* a run that went through the turns of the wide pool's while loop and the
\* last resort has resolved
C31_Witness ==
  /\ plOutcome = "resolved"
  /\ plPc = "done"
  /\ \E c \in Colors : plBackfilledBy[c] = "ultra_loose"

\* the pages the run for window w receives when it runs alone
BdAlone(w) == [i \in 1..Len(AllRanges) |-> bdUp[BdPlan(w)[i]]]

\* the run for window w rejects when it runs alone
BdAloneRejects(w) == \E i \in 1..Len(AllRanges) : BdAlone(w)[i] = "error"

C33_ServedOwnTokenOnly ==
  tkServed.map \in TkMaps => tkServed.to = tkServed.madeFor

\* the step that ends the artists stage S2 of a run that goes on
PlArtistsEnd == plPc = "artist" /\ plPc' # "artist" /\ plOutcome' = "pending"

\* C34: the wide top-tracks stage S4 is entered only from the end of the
\* widened stage S3; a run that ends the artists stage S2 with exactly one
\* bucket empty goes straight to the last resort S5, and such a run never
\* stands in S3 or S4 and none of its buckets is filled by them.
C34_WideOnlyInsideWidened ==
  /\ [][ (StageOf(plPc') = 4 /\ StageOf(plPc) # 4) => plPc = "artist_wide" ]_vars
  /\ [][ (PlArtistsEnd /\ Len(missing(plResult')) = 1) => plPc' = "last" ]_vars
  /\ [](Cardinality(EmptyAfterArtists) = 1 =>
          /\ StageOf(plPc) \notin {3, 4}
          /\ \A c \in Colors :
               plBackfilledBy[c] \notin {"saved_wide", "artist_wide",
                                         "wide_top_tracks", "ultra_loose"})

\* a run whose artists stage left exactly one bucket empty has returned, the
\* bucket filled by the last resort
C34_Witness ==
  /\ PlReturned
  /\ Cardinality(EmptyAfterArtists) = 1
  /\ \E c \in Colors : plBackfilledBy[c] = "other_ranges_last"
  /\ \E c \in Colors : plBackfilledBy[c] = "artist"

\* no album id is the top of two buckets of result r
TopsDistinct(r) ==
  \A c1 \in Colors : \A c2 \in Colors :
    (c1 # c2 /\ r[c1].top # null /\ r[c2].top # null)
      => r[c1].top.id # r[c2].top.id

\* C35: from the Selector's uniqueness pass on, at every await of the run
\* and at its return, no album id is the top of two buckets; the id a
\* backfill step writes into a bucket was the top of no bucket before the
\* step; and the enforceUniqueTops call before the return clears nothing:
\* every bucket that was filled before the last step, and every bucket a
\* backfill stage has labelled, has its top in the returned Result.
C35_NoSharedTopAtAnyPoint ==
  /\ [](plPc \notin {"off", "select"} => TopsDistinct(plResult))
  /\ [][ \A c \in Colors :
           (plPc \notin {"off", "select"} /\ PlTop(c) = null
              /\ plResult'[c].top # null)
             => plResult'[c].top.id \notin getUsedAlbumIds(plResult) ]_vars
  /\ [][ (plOutcome = "pending" /\ plOutcome' = "resolved") =>
           \A c \in Colors : PlTop(c) # null => plResult'[c].top # null ]_vars
  /\ [](PlReturned =>
          \A c \in Colors : plBackfilledBy[c] # "none" => PlTop(c) # null)

\* album 1 is listed twice, once on the first page and once in another place
\* a backfill stage reads; the run has returned with one bucket filled by the
\* last resort, in the step that makes the final call, and another by an
\* earlier backfill stage
C35_Witness ==
  /\ PlReturned
  /\ plPlace[1] = "top" /\ plPlace[2] \notin {"none", "top"}
  /\ \E c \in Colors : plBackfilledBy[c] = "other_ranges_last"
  /\ \E c \in Colors : plBackfilledBy[c] \notin {"none", "other_ranges_last"}

\* C36: in every Result a run returns, each top that is not null carries a
\* hex, and hexToSimpleBucket of that hex is the colour of the bucket
\* holding it, whether the Selector or a backfill stage filled the bucket.
C36_TopClassifiesToItsBucket ==
  PlReturned =>
    \A c \in Colors :
      PlTop(c) # null =>
        /\ PlTop(c).hex # NoHex
        /\ hexToSimpleBucket(PlTop(c).hex) = c

\* a returned Result with one bucket filled by the Selector, one by a scan
\* of saved or artist albums and one from a pool of top tracks
C36_Witness ==
  /\ PlReturned
  /\ \E c \in Colors : PlTop(c) # null /\ plBackfilledBy[c] = "none"
  /\ \E c \in Colors :
       PlTop(c) # null
         /\ plBackfilledBy[c] \in {"saved", "artist", "saved_wide", "artist_wide"}
  /\ \E c \in Colors :
       PlTop(c) # null
         /\ plBackfilledBy[c] \in {"wide_top_tracks", "ultra_loose", "other_ranges_last"}

----------------------------------------------------------------------------
\* SpecInOrder: the lookups, or the compute calls, with the order of the
\* promise reactions.  The creator's `await p` is the first reaction
\* registered on p (it is registered in the synchronous run that creates p),
\* so when p settles the creator's finally runs before any later reaction and
\* before the next request handler: no call for the key comes between the
\* settlement and the finally.

FtOn == DOMAIN ftCallers # {}
CoOn == DOMAIN coCallers # {}

\* no settled lookup of key k whose creator has yet to resume
FtReacted(k) ==
  \A c \in FtCallers :
    ~(ftCallers[c].pc = "owner" /\ ftCallers[c].key = k /\ FtSettled(ftCallers[c].p))

\* no settled run of compute key k whose creator has yet to resume
CoReacted(k) ==
  \A c \in CoCallers :
    ~(coCallers[c].pc = "owner" /\ coCallers[c].key = k /\ CoSettled(coCallers[c].p))

InitInOrder == InitFetch \/ InitCompute

InOrderStep ==
  \/ FtOn /\ FtTick
  \/ FtOn /\ \E c \in FtCallers, k \in FtKeys : FtReacted(k) /\ FtCall(c, k)
  \/ FtOn /\ \E p \in DOMAIN ftPromises, r \in FtResponses : FtRespond(p, r)
  \/ FtOn /\ \E p \in DOMAIN ftPromises : FtRetry(p)
  \/ FtOn /\ \E c \in FtCallers : FtOwnerResume(c)
  \/ FtOn /\ \E c \in FtCallers : FtAttachedResume(c)
  \/ FtOn /\ \E c \in FtCallers : FtReturn(c)
  \/ CoOn /\ CoTick
  \/ CoOn /\ \E c \in CoCallers, k \in CoKeys : CoReacted(k) /\ CoCall(c, k)
  \/ CoOn /\ \E p \in DOMAIN coRuns : CoPipelineReturn(p)
  \/ CoOn /\ \E p \in DOMAIN coRuns : CoPipelineThrow(p)
  \/ CoOn /\ \E c \in CoCallers : CoOwnerResume(c)
  \/ CoOn /\ \E c \in CoCallers : CoAttachedResume(c)
  \/ CoOn /\ \E c \in CoCallers : CoReturn(c)

SpecInOrder == InitInOrder /\ [][InOrderStep]_vars

\* the lookups that have settled and whose key still names them
FtSettledRegistered ==
  {p \in FtLive : FtSettled(p) /\ ftInflight[ftPromises[p].key] = p}

\* the runs that have settled and whose compute key still names them
CoSettledRegistered ==
  {p \in CoLive : CoSettled(p) /\ coInflight[coRuns[p].key] = p}

\* the lookups: the key of a settled computation stays registered only until
\* its creator resumes, and the creator's resumption removes it after a
\* success and after an error; the step in which a computation fails writes
\* nothing to the cache, which holds no value a read returns for its key
\* (at most the null an earlier OK response without JSON left); a call is
\* never handed a settled computation, and with none pending for its key
\* and no fresh cache entry it starts a new one.
FtSettlesClean ==
  /\ [](FtOn =>
          \A p \in FtSettledRegistered :
            \E c \in FtCallers : ftCallers[c].pc = "owner" /\ ftCallers[c].p = p)
  /\ [][ FtOn =>
           \A c \in FtCallers :
             (ftCallers[c].pc = "owner" /\ ftCallers'[c].pc # "owner")
               => ftInflight'[ftCallers[c].key] = 0 ]_vars
  /\ [][ FtOn =>
           \A p \in FtLive :
             (ftPromises[p].pc # "rejected" /\ ftPromises'[p] # absent
                /\ ftPromises'[p].pc = "rejected")
               => /\ ftCache' = ftCache
                  /\ spotifyCacheGet(ftCache', ftPromises[p].key, ftNow') = null ]_vars
  /\ [][ FtOn =>
           \A c \in FtCallers :
             (ftCallers[c].pc = "idle" /\ ftCallers'[c].pc # "idle") =>
               /\ ftCallers'[c].pc = "attached" => ~FtSettled(ftCallers'[c].p)
               /\ ftCallers'[c].pc = "got" => "returned" \in DOMAIN ftCallers'[c].got
               /\ (/\ FtPendingFor(ftCallers'[c].key) = {}
                   /\ spotifyCacheGet(ftCache, ftCallers'[c].key, ftNow) = null)
                    => /\ ftCallers'[c].pc = "owner"
                       /\ ftPromises'[ftCallers'[c].p].pc = "fetch1" ]_vars

\* the compute calls, in the same way
CoSettlesClean ==
  /\ [](CoOn =>
          \A p \in CoSettledRegistered :
            \E c \in CoCallers : coCallers[c].pc = "owner" /\ coCallers[c].p = p)
  /\ [][ CoOn =>
           \A c \in CoCallers :
             (coCallers[c].pc = "owner" /\ coCallers'[c].pc # "owner")
               => coInflight'[coCallers[c].key] = 0 ]_vars
  /\ [][ CoOn =>
           \A p \in CoLive :
             (coRuns[p].pc # "rejected" /\ coRuns'[p] # absent
                /\ coRuns'[p].pc = "rejected")
               => /\ coCache' = coCache
                  /\ computeCacheGet(coCache', coRuns[p].key, coNow') = null ]_vars
  /\ [][ CoOn =>
           \A c \in CoCallers :
             (coCallers[c].pc = "idle" /\ coCallers'[c].pc # "idle") =>
               /\ coCallers'[c].pc = "attached" => ~CoSettled(coCallers'[c].p)
               /\ coCallers'[c].pc = "got" => "returned" \in DOMAIN coCallers'[c].got
               /\ (/\ \A p \in CoPending : coRuns[p].key # coCallers'[c].key
                   /\ computeCacheGet(coCache, coCallers'[c].key, coNow) = null)
                    => /\ coCallers'[c].pc = "owner"
                       /\ coRuns'[coCallers'[c].p].pc = "pipeline" ]_vars

\* C37: after a lookup or a pipeline run settles, with a value or with an
\* error, its creator's finally removes its key from the in-flight map, a
\* failed one has written no cache entry, and the next call for the key is
\* not handed the settled computation: it starts a new one.
C37_SettledKeyIsFree == FtSettlesClean /\ CoSettlesClean

\* a lookup failed and its creator holds the error; the next call for the
\* key has started a new lookup, which is in flight
C37_Witness ==
  /\ FtOn
  /\ \E c1 \in FtCallers : \E c2 \in FtCallers :
       /\ ftCallers[c1].pc = "got"
       /\ "threw" \in DOMAIN ftCallers[c1].got
       /\ ftCallers[c2].pc = "owner"
       /\ ftCallers[c2].key = ftCallers[c1].key
       /\ ftCallers[c2].p \in FtPending
       /\ ftCache[ftCallers[c1].key] = absent
       /\ \A p \in FtLive : ftPromises[p].key = ftCallers[c1].key => p \in FtPending

\* best when the samplings of candidates i, i + 1, ... settle in the order
\* of the list
RECURSIVE AbInListOrderFrom(_, _, _)
AbInListOrderFrom(candidates, i, best) ==
  IF i > Len(candidates) THEN best
  ELSE
    LET c == candidates[i]
        take == /\ ScanAccepts(c, abCall.targetColor, abCall.minConf)
                /\ (best = null \/ c.sample.confidence > best.confidence)
    IN  Bind(IF take THEN BackfillCandidate(c, "artist") ELSE best,
             LAMBDA next : AbInListOrderFrom(candidates, i + 1, next))

\* C38: the candidate findArtistBackfillForColor returns is the same for
\* every order in which the samplings of the worker pool settle: whatever
\* the order, it is the one returned when they settle in the order of the
\* list.
C38_PickIndependentOfOrder ==
  abPc = "done" => abBest = AbInListOrderFrom(AbCandidates, 1, null)

\* DOMINANT_CACHE holds { hex: null, confidence: 0 } for the URL
ImFailureCached(map, url) == DominantCacheLookup(map, url) = <<NoSample>>

\* a step in which caller c makes a call
ImCalls(c) == imCallers[c].pc \in ImResting /\ imCallers'[c] # imCallers[c]

\* C39: a response that is not OK is cached as { hex: null, confidence: 0 };
\* the entry stays until an insertion at capacity evicts it, and until then
\* every call for the URL returns it without a fetch; a thrown fetch or
\* decode error writes nothing, and a call that finds no entry fetches.
C39_FailureCachedUntilEvicted ==
  /\ [][ \A c \in ImCallers :
           (imCallers[c].pc = "fetch" /\ imCallers'[c].pc = "returned")
             => /\ ImFailureCached(imCache', imCallers[c].url)
                /\ imCallers'[c].out = NoSample ]_vars
  /\ [][ \A url \in ImUrls :
           (ImFailureCached(imCache, url) /\ ~ImFailureCached(imCache', url))
             => /\ ~MapHas(imCache', url)
                /\ Len(imCache) = ImMax ]_vars
  /\ [][ \A c \in ImCallers :
           (ImCalls(c) /\ ImFailureCached(imCache, imCallers'[c].url))
             => /\ imCallers'[c].pc = "returned"
                /\ imCallers'[c].via = "cache"
                /\ imCallers'[c].out = NoSample ]_vars
  /\ [][ \A c \in ImCallers :
           /\ (imCallers[c].pc # "threw" /\ imCallers'[c].pc = "threw")
                => imCache' = imCache
           /\ (ImCalls(c) /\ ~MapHas(imCache, imCallers'[c].url))
                => imCallers'[c].pc = "fetch" ]_vars

\* C40: a request to /api/results_bundle made after the listener's previous
\* bundle has failed starts a new computation: it never awaits a promise
\* that has rejected already.
C40_FreshAfterFailure ==
  ~(bnServed.how = "existing" /\ bnServed.was = "rejected")

====
